---- MODULE Spec2Model ----
(***************************************************************************)
(* node-tar: the streaming parser (lib/parse.js), the archive writer       *)
(* (lib/write-entry.js) and the extractor (lib/unpack.js).                 *)
(*                                                                         *)
(* A byte stream is never stored byte by byte: a chunk is the interval     *)
(* <<lo, hi>> of stream offsets it covers, so slicing and concatenation    *)
(* are interval arithmetic and the bytes an entry receives are known by    *)
(* their offsets in the stream.                                            *)
(***************************************************************************)
EXTENDS Integers, Sequences, FiniteSets, TLC

VARIABLES
    \* ---- the archive fed to the parser and the producer's position
    archive,      \* sequence of [type, size, body]: header fields and bytes that follow
    gzipped,      \* the stream written to the parser is the gzip file of the archive
    pos,          \* offset of the next byte the producer writes
    writes,       \* number of write()/end() calls made so far
    lastRet,      \* what the last write() returned: "true", "false", or "none"
    \* ---- Parser fields (parse.js constructor)
    state, buffer, queue, readEntry, writeEntry, ended, unzip, meta, ex, gex,
    thisMaxMetaEntrySize,
    \* ---- the ReadEntry objects created so far, by header index
    ents,
    \* ---- observation: events emitted, and an error thrown out of write()
    log, thrown,
    \* ---- WriteEntry (write-entry.js): the objects made so far, the stat
    \* objects lstat returned, and the two caches the constructor is given
    wes, stats, linkCache, statCache, sharedStatCache,
    \* ---- Unpack (unpack.js): options.path and options.strip, the argument
    \* and the result of the last [FIXPATH] call
    unpackPath, strip, fixArg, fixed,
    \* ---- the entries the extractor is handed, the next to come, the one
    \* not yet ended, the module's memo of made directories, the filesystem
    \* calls in flight, the filesystem, the events emitted
    entries, nextEntry, curEntry, madeDirs, ops, fsys, ulog,
    \* ---- observation: the fs.link and fs.symlink calls made for each entry,
    \* and the filesystem as it was before the extraction
    linkCalls, fsys0

parserVars == <<archive, gzipped, pos, writes, lastRet, state, buffer, queue, readEntry,
                writeEntry, ended, unzip, meta, ex, gex, ents, log, thrown,
                thisMaxMetaEntrySize>>

writeVars == <<wes, stats, linkCache, statCache, sharedStatCache>>

unpackVars == <<unpackPath, strip, fixArg, fixed, entries, nextEntry, curEntry,
                madeDirs, ops, fsys, ulog, linkCalls, fsys0>>

vars == <<parserVars, writeVars, unpackVars>>

----------------------------------------------------------------------------
\* Bounds of the model: the longest archive, in 512-byte blocks
MaxBlocks == 3
\* the number of WriteEntry objects made
MaxWriteEntries == 2
\* the longest entry path, in components, and the largest strip option
MaxPathLen == 3
MaxStrip == 2
\* the number of entries of an extracted archive, and the symbolic links
\* the filesystem follows in one lookup
MaxUnpackEntries == 2
MaxSymlinks == 2
\* the fs.link and fs.symlink calls that are followed for one entry
MaxLinkCalls == 3

\* Program constants
BLOCK == 512
maxMetaEntrySize == 1048576

Max(a, b) == IF a > b THEN a ELSE b
Min(a, b) == IF a < b THEN a ELSE b

\* Math.ceil(n / 512)
CeilBlocks(n) == (n + BLOCK - 1) \div BLOCK

----------------------------------------------------------------------------
\* Buffers as intervals of stream offsets.  Null is JavaScript's null/undefined.
Null == <<>>

BufLen(c) == c[2] - c[1]

\* An index of Buffer.slice: negative counts from the end, both are clamped.
SliceIndex(i, len) == IF i < 0 THEN Max(len + i, 0) ELSE Min(i, len)

\* chunk.slice(a, b)
Slice(c, a, b) ==
    LET len == BufLen(c)
        s == SliceIndex(a, len)
        e == SliceIndex(b, len)
    IN  IF e <= s THEN <<c[1] + s, c[1] + s>> ELSE <<c[1] + s, c[1] + e>>

\* chunk.slice(a)
SliceFrom(c, a) == Slice(c, a, BufLen(c))

\* Buffer.concat([a, b]): b continues the stream where a stops
Concat(a, b) == <<a[1], b[2]>>

\* bytes appended to a list of received byte ranges (adjacent ranges merge,
\* empty ranges leave no trace: only the bytes count, not the chunking)
AppendBytes(data, c) ==
    IF BufLen(c) = 0 THEN data
    ELSE IF data # <<>> /\ data[Len(data)][2] = c[1]
         THEN [data EXCEPT ![Len(data)] = <<@[1], c[2]>>]
         ELSE Append(data, c)

----------------------------------------------------------------------------
\* The archive: header i sits at HdrOff(i), followed by archive[i].body bytes.
RECURSIVE HdrOff(_)
HdrOff(i) == IF i = 1 THEN 0 ELSE HdrOff(i - 1) + BLOCK + archive[i - 1].body

StreamLen == HdrOff(Len(archive) + 1)

\* The gzip file of the archive: a 10-byte header that begins with 0x1f 0x8b,
\* the deflated archive (here two archive bytes to one byte), and an 8-byte
\* trailer.  Inflated(n) is how much of the archive the first n bytes of
\* the file inflate to.
GzipLen == 10 + (StreamLen + 1) \div 2 + 8

Inflated(n) == IF n <= 10 THEN 0 ELSE Min(StreamLen, 2 * (n - 10))

\* the length of the stream that is written to the parser
WrittenLen == IF gzipped THEN GzipLen ELSE StreamLen

\* new Header(block) for the 512 bytes at offset off: the index of the header
\* that sits there, 0 when the block is no header of the archive (a body block,
\* or a window that is not on the archive's block grid)
HeaderAt(off) ==
    IF \E i \in 1..Len(archive) : HdrOff(i) = off
    THEN CHOOSE i \in 1..Len(archive) : HdrOff(i) = off
    ELSE 0

cksumValid(h) == h # 0 /\ archive[h].type # "Null"

MetaTypes == {"ExtendedHeader", "OldExtendedHeader", "GlobalExtendedHeader",
              "NextFileHasLongPath", "OldGnuLongPath", "NextFileHasLongLinkpath"}

KnownTypes == {"File", "OldFile", "Link", "SymbolicLink", "CharacterDevice",
               "BlockDevice", "Directory", "FIFO", "ContiguousFile", "GNUDumpDir"}

----------------------------------------------------------------------------
\* ReadEntry (lib/read-entry.js) and the MiniPass stream it extends

NoEntry == [created |-> FALSE, remain |-> 0, blockRemain |-> 0, meta |-> FALSE,
            ignore |-> FALSE, extended |-> Null, globalExtended |-> Null,
            data |-> <<>>, eof |-> FALSE, flowing |-> FALSE,
            emittedEnd |-> FALSE, listener |-> FALSE,
            \* observation: the calls of end(), and of write() after end()
            endCalls |-> 0, lateWrites |-> 0]

\* a ReadEntry that takes an unknown type code for a type
NewReadEntryNoIgnore(h, extended, globalExtended) ==
    [NoEntry EXCEPT !.created = TRUE,
                    !.remain = archive[h].size,
                    !.blockRemain = BLOCK * CeilBlocks(archive[h].size),
                    !.meta = archive[h].type \in MetaTypes,
                    !.extended = extended,
                    !.globalExtended = globalExtended]

\* new ReadEntry(header, ex, gex)
NewReadEntry(h, extended, globalExtended) ==
    [NoEntry EXCEPT !.created = TRUE,
                    !.remain = archive[h].size,
                    !.blockRemain = BLOCK * CeilBlocks(archive[h].size),
                    !.meta = archive[h].type \in MetaTypes,
                    !.ignore = archive[h].type \notin (KnownTypes \cup MetaTypes),
                    !.extended = extended,
                    !.globalExtended = globalExtended]

\* ReadEntry.write that forwards every byte it is given
ReadEntryWriteAll(p, e, data) ==
    IF BufLen(data) > p.ents[e].blockRemain
    THEN [p EXCEPT !.thrown = TRUE]
    ELSE [p EXCEPT !.ents[e].remain = Max(0, @ - BufLen(data)),
                   !.ents[e].blockRemain = Max(0, @ - BufLen(data)),
                   !.ents[e].data = AppendBytes(@, data)]

\* ReadEntry.write that takes what is left of the block of a longer buffer
ReadEntryWriteClamped(p, e, data) ==
    [p EXCEPT !.ents[e].remain = Max(0, @ - BufLen(data)),
              !.ents[e].blockRemain = Max(0, @ - BufLen(data)),
              !.ents[e].data = IF p.ents[e].ignore THEN @
                               ELSE AppendBytes(@, Slice(data, 0, p.ents[e].remain))]

\* ReadEntry.write(data): refuses more than blockRemain, counts the bytes off
\* remain and blockRemain, forwards at most remain bytes, none when ignored
ReadEntryWrite(p, e, data) ==
    LET entry == p.ents[e]
        writeLen == BufLen(data)
        r == entry.remain
    IN  IF writeLen > entry.blockRemain
        THEN [p EXCEPT !.thrown = TRUE]
        ELSE LET p1 == [p EXCEPT !.ents[e].remain = Max(0, r - writeLen),
                                 !.ents[e].blockRemain = Max(0, @ - writeLen)]
             IN  IF entry.ignore THEN p1
                 ELSE IF entry.eof
                 THEN [p1 EXCEPT !.thrown = TRUE]      \* MiniPass: write after end
                 ELSE [p1 EXCEPT !.ents[e].data =
                          AppendBytes(@, IF r >= writeLen THEN data ELSE Slice(data, 0, r))]

RECURSIVE NEXTENTRY(_)

\* MiniPass emits 'end' once, when the stream has ended and is flowing (its
\* buffered data is flushed when it starts flowing).  The parser's listener
\* (parse.js line 149) then runs NEXTENTRY.
MaybeEmitEnd(p, e) ==
    IF p.ents[e].emittedEnd \/ ~p.ents[e].eof \/ ~p.ents[e].flowing
    THEN p
    ELSE LET q == [p EXCEPT !.ents[e].emittedEnd = TRUE,
                            !.log = Append(@, <<"end", e>>)]
         IN  IF q.ents[e].listener THEN NEXTENTRY(q) ELSE q

\* entry.end()
EntryEnd(p, e) ==
    MaybeEmitEnd([p EXCEPT !.ents[e].eof = TRUE, !.ents[e].endCalls = @ + 1], e)

\* entry.resume(), entry.on('data', ...) or entry.pipe(...)
EntryResume(p, e) == MaybeEmitEnd([p EXCEPT !.ents[e].flowing = TRUE], e)

\* The consumer's 'entry' handler: it starts draining the entry at once when
\* the entry is in p.eager, otherwise it leaves that for later (or never).
OnEntry(p, e) == IF e \in p.eager THEN EntryResume(p, e) ELSE p

----------------------------------------------------------------------------
\* Parser (lib/parse.js)

\* the while loop of Parser[NEXTENTRY]
RECURSIVE NextEntryLoop(_)
NextEntryLoop(p) ==
    IF p.queue = <<>>
    THEN [p EXCEPT !.readEntry = 0]
    ELSE LET e == Head(p.queue)
             p1 == [p EXCEPT !.readEntry = e, !.queue = Tail(@),
                             !.log = Append(@, <<"entry", e>>)]
             p2 == OnEntry(p1, e)
         IN  IF ~p2.ents[e].emittedEnd
             THEN [p2 EXCEPT !.ents[e].listener = TRUE]
             ELSE NextEntryLoop(p2)

NEXTENTRY(p) ==
    LET q == NextEntryLoop(p)
    IN  IF Len(q.queue) = 0 THEN [q EXCEPT !.log = Append(@, <<"drain">>)] ELSE q

\* the filter option applied to the entry of header h
filter(h) == archive[h].keep

\* EmitIfIdle without its test of this[READENTRY]
EmitAlways(p) == NEXTENTRY(p)

\* an invalid header treated as an error that stops the parser
InvalidHeaderThrows(p, blk) == [p EXCEPT !.thrown = TRUE]

\* consumeHeader, lines 110-111: return this.emit('invalidHeader', header)
InvalidHeader(p, blk) == [p EXCEPT !.log = Append(@, <<"invalidHeader", blk[1]>>)]

\* consumeHeader, lines 140-141
EmitIfIdle(p) == IF p.readEntry = 0 THEN NEXTENTRY(p) ELSE p

\* a consumeHeader that leaves this[EX] as it is
consumeHeaderKeepsEx(p, blk) ==
    LET h == HeaderAt(blk[1])
    IN  IF ~cksumValid(h)
        THEN InvalidHeader(p, blk)
        ELSE
        LET entry == NewReadEntry(h, p.ex, p.gex)
            p1 == [p EXCEPT !.writeEntry = h, !.ents[h] = entry]
        IN  IF entry.meta
            THEN IF archive[h].size > p.maxMetaEntrySize
                 THEN [p1 EXCEPT !.log = Append(@, <<"metaEntryTooLarge", h>>),
                                 !.ents[h].ignore = TRUE,
                                 !.thrown = TRUE]
                 ELSE [p1 EXCEPT !.meta = <<>>, !.state = "meta"]
            ELSE
            LET ign == entry.ignore \/ ~filter(h)
                p2 == [p1 EXCEPT !.ents[h].ignore = ign]
            IN  IF ign
                THEN [p2 EXCEPT !.log = Append(@, <<"ignoredEntry", h>>),
                                !.state = IF entry.remain # 0 THEN "ignore" ELSE "begin"]
                ELSE
                LET p3 == IF archive[h].size = 0 THEN EntryEnd(p2, h) ELSE p2
                    p4 == [p3 EXCEPT !.state = IF entry.remain # 0 THEN "body" ELSE "begin",
                                     !.queue = Append(@, h)]
                IN  EmitIfIdle(p4)

consumeHeader(p, blk) ==
    LET h == HeaderAt(blk[1])
    IN  IF ~cksumValid(h)
        THEN InvalidHeader(p, blk)
        ELSE
        LET entry == NewReadEntry(h, p.ex, p.gex)
            p1 == [p EXCEPT !.writeEntry = h, !.ents[h] = entry]
        IN  IF entry.meta
            THEN IF archive[h].size > p.maxMetaEntrySize
                 \* line 119 reads the undeclared identifier `ignore`: ReferenceError
                 THEN [p1 EXCEPT !.log = Append(@, <<"metaEntryTooLarge", h>>),
                                 !.ents[h].ignore = TRUE,
                                 !.thrown = TRUE]
                 ELSE [p1 EXCEPT !.meta = <<>>, !.state = "meta"]
            ELSE
            LET ign == entry.ignore \/ ~filter(h)
                p2 == [p1 EXCEPT !.ex = Null, !.ents[h].ignore = ign]
            IN  IF ign
                THEN [p2 EXCEPT !.log = Append(@, <<"ignoredEntry", h>>),
                                !.state = IF entry.remain # 0 THEN "ignore" ELSE "begin"]
                ELSE
                LET p3 == IF archive[h].size = 0 THEN EntryEnd(p2, h) ELSE p2
                    p4 == [p3 EXCEPT !.state = IF entry.remain # 0 THEN "body" ELSE "begin",
                                     !.queue = Append(@, h)]
                IN  EmitIfIdle(p4)

consumeIgnoreBody(p) ==
    LET c == p.chunk
        w == p.writeEntry
    IN  IF BufLen(c) >= p.ents[w].blockRemain
        THEN [p EXCEPT !.state = "begin", !.chunk = SliceFrom(c, p.ents[w].blockRemain)]
        ELSE [p EXCEPT !.ents[w].blockRemain = @ - BufLen(c), !.chunk = Null]

\* a multi-byte character of a meta body lies across the stream offset off
InsideChar(off) ==
    \E i \in 1..Len(archive) : off - (HdrOff(i) + BLOCK) \in archive[i].wide

\* str += data, line 209: the Buffer data is decoded to a string by itself,
\* so a character that begins in one Buffer and ends in the next is decoded
\* in neither.  A string is the list of the byte ranges decoded in one piece.
AppendString(str, data) ==
    IF BufLen(data) = 0 THEN str
    ELSE IF InsideChar(data[1]) THEN Append(str, data)
    ELSE AppendBytes(str, data)

\* the emit callback of consumeBodyChunk: data => this[WRITEENTRY].write(data)
\* for a body, data => this[META] += data for a meta entry
EmitBody(p, kind, data) ==
    IF kind = "meta"
    THEN [p EXCEPT !.meta = AppendString(@, data)]
    ELSE ReadEntryWrite(
            [p EXCEPT !.ents[p.writeEntry].lateWrites =
                          IF p.ents[p.writeEntry].eof THEN @ + 1 ELSE @],
            p.writeEntry, data)

\* consumeBodyChunk, lines 183-185: q is the parser after emit(chunk), which
\* may have thrown
BodyGoesOn(q, w, n) ==
    IF q.thrown THEN q
    ELSE [q EXCEPT !.ents[w].remain = @ - n,
                   !.ents[w].blockRemain = @ - n,
                   !.chunk = Null]

\* consumeBodyChunk, lines 193-196
BodyEndsInBlock(q, w, n) ==
    IF q.thrown THEN q
    ELSE [EntryEnd([q EXCEPT !.ents[w].remain = 0,
                             !.ents[w].blockRemain = @ - n], w)
             EXCEPT !.chunk = Null]

\* consumeBodyChunk, lines 202-204: q is the parser after entry.end()
BlockEnds(q, w, c) ==
    [q EXCEPT !.state = "begin",
              !.writeEntry = 0,
              !.chunk = SliceFrom(c, q.ents[w].blockRemain)]

\* consumeBodyChunk, lines 200-204
BodyEndsWithBlock(q, w, c) == IF q.thrown THEN q ELSE BlockEnds(EntryEnd(q, w), w, c)

consumeBodyChunk(p, kind) ==
    LET c == p.chunk
        w == p.writeEntry
        n == BufLen(c)
        entry == p.ents[w]
    IN  IF n < entry.remain
        THEN BodyGoesOn(EmitBody(p, kind, c), w, n)
        ELSE IF n < entry.blockRemain
        THEN BodyEndsInBlock(IF entry.remain # 0
                             THEN EmitBody(p, kind, Slice(c, 0, entry.remain))
                             ELSE p, w, n)
        ELSE BodyEndsWithBlock(EmitBody(p, kind, Slice(c, 0, entry.remain)), w, c)

consumeEntryBody(p) == consumeBodyChunk(p, "body")

\* the per-entry or global overrides as the meta entries leave them: which meta
\* entries were parsed into them (pax) and the path and linkpath they set
NoOverrides == [pax |-> <<>>, path |-> Null, linkpath |-> Null]

\* Pax.parse(META, prior, global): the body of meta entry w merged into prior
PaxParse(metaBytes, prior, w) ==
    LET o == IF prior = Null THEN NoOverrides ELSE prior
    IN  [o EXCEPT !.pax = Append(@, <<w, metaBytes>>)]

\* consumeMeta, lines 211-237: q is the parser after consumeBodyChunk, w the
\* entry that was this[WRITEENTRY] before it
MetaDone(q, w) ==
    LET t == archive[w].type
        exObj == IF q.ex = Null THEN NoOverrides ELSE q.ex
    IN  IF q.thrown \/ q.writeEntry # 0 THEN q
        ELSE LET q1 == [q EXCEPT !.log = Append(@, <<"meta", w>>)]
             IN  IF t \in {"ExtendedHeader", "OldExtendedHeader"}
                 THEN [q1 EXCEPT !.ex = PaxParse(q.meta, q.ex, w)]
                 ELSE IF t = "GlobalExtendedHeader"
                 THEN [q1 EXCEPT !.gex = PaxParse(q.meta, q.gex, w)]
                 ELSE IF t \in {"NextFileHasLongPath", "OldGnuLongPath"}
                 THEN [q1 EXCEPT !.ex = [exObj EXCEPT !.path = q.meta]]
                 ELSE IF t = "NextFileHasLongLinkpath"
                 THEN [q1 EXCEPT !.ex = [exObj EXCEPT !.linkpath = q.meta]]
                 ELSE [q1 EXCEPT !.thrown = TRUE]

consumeMeta(p) == MetaDone(consumeBodyChunk(p, "meta"), p.writeEntry)

\* one turn of the while loop of Parser[CONSUMECHUNK]
ConsumeStep(p) ==
    IF p.state = "begin"
    THEN [consumeHeader(p, Slice(p.chunk, 0, BLOCK)) EXCEPT !.chunk = SliceFrom(p.chunk, BLOCK)]
    ELSE IF p.state = "ignore" THEN consumeIgnoreBody(p)
    ELSE IF p.state = "body" THEN consumeEntryBody(p)
    ELSE IF p.state = "meta" THEN consumeMeta(p)
    ELSE [p EXCEPT !.thrown = TRUE]

RECURSIVE ConsumeLoop(_)
ConsumeLoop(p) ==
    IF p.thrown \/ p.chunk = Null \/ BufLen(p.chunk) < BLOCK
    THEN p
    ELSE ConsumeLoop(ConsumeStep(p))

\* Parser[CONSUMECHUNK], lines 314-317: p1 is the parser after the loop
KeepRest(p1) ==
    IF p1.thrown THEN p1
    ELSE IF p1.chunk # Null /\ BufLen(p1.chunk) # 0
    THEN [p1 EXCEPT !.buffer = p1.chunk]
    ELSE IF p1.ended
    THEN [p1 EXCEPT !.log = Append(@, <<"end">>)]
    ELSE p1

CONSUMECHUNK(p, chunk) ==
    LET joined == chunk # Null /\ p.buffer # Null
        p0 == [p EXCEPT !.buffer = IF joined THEN Null ELSE @,
                        !.chunk = IF joined THEN Concat(p.buffer, chunk) ELSE chunk]
    IN  KeepRest(ConsumeLoop(p0))

\* WriteReturn as the comment above it reads: false whenever there is a queue
WriteReturnQueueOnly(p) == IF Len(p.queue) # 0 THEN "false" ELSE "true"

\* lines 271-275 of write: the value it returns
WriteReturn(p) ==
    IF p.state = "begin" THEN "true"
    ELSE IF p.state = "ignore" THEN "true"
    ELSE IF p.state = "meta" THEN "true"
    ELSE IF Len(p.queue) # 0 THEN "false"
    ELSE "true"

\* lines 252-255, chunk[0..1] equals gzipHeader: a gzip file begins with
\* 0x1f 0x8b, an archive with the first header's path
StartsWithGzipHeader(c) == gzipped /\ c[1] = 0 /\ BufLen(c) >= 2

\* lines 271-277 of write: q is the parser after CONSUMECHUNK
Returns(q) == IF q.thrown THEN q ELSE [q EXCEPT !.ret = WriteReturn(q)]

\* what zlib.Unzip makes of the bytes chunk of the gzip file
Inflate(chunk) == <<Inflated(chunk[1]), Inflated(chunk[2])>>

\* this[UNZIP].write(chunk) or .end(chunk), lines 258 and 263-266: what the
\* chunk inflates to comes back in a 'data' event, if it is not empty
UnzipWrite(p, chunk) ==
    IF chunk = Null \/ BufLen(Inflate(chunk)) = 0 THEN p
    ELSE CONSUMECHUNK(p, Inflate(chunk))

\* lines 262-277 of write
WriteRoute(p, chunk) ==
    Returns(IF p.unzip = "unzip" THEN UnzipWrite(p, chunk) ELSE CONSUMECHUNK(p, chunk))

\* the test of line 243 without this[UNZIP] === null
AnyWrite(p, chunk) == chunk # Null

\* lines 243-260 of write: on the first write the chunk, joined to what is
\* buffered, is looked at for the gzip header
FirstWrite(p, chunk) == p.unzip = "null" /\ chunk # Null

Sniffed(p, chunk) == IF p.buffer # Null THEN Concat(p.buffer, chunk) ELSE chunk

ParserWrite(p, chunk) ==
    IF FirstWrite(p, chunk) /\ BufLen(Sniffed(p, chunk)) < 2
    THEN [p EXCEPT !.buffer = Sniffed(p, chunk), !.ret = "true"]
    ELSE WriteRoute(
            IF FirstWrite(p, chunk)
            THEN [p EXCEPT !.buffer = Null,
                           !.unzip = IF StartsWithGzipHeader(Sniffed(p, chunk))
                                     THEN "unzip" ELSE "false"]
            ELSE p,
            IF FirstWrite(p, chunk) THEN Sniffed(p, chunk) ELSE chunk)

ParserEnd(p, chunk) == ParserWrite([p EXCEPT !.ended = TRUE], chunk)


----------------------------------------------------------------------------
\* WriteEntry (lib/write-entry.js)

maxReadSize == 1048576

\* The files on disk that WriteEntry objects are made for: a and b are two
\* names of one inode, d is a directory, s a symbolic link to a, l a file of
\* one whole block whose name is longer than the path field of a header, and
\* p a named pipe.
Disk ==
    [a |-> [kind |-> "File", dev |-> 1, ino |-> 2, nlink |-> 2, size |-> 100],
     b |-> [kind |-> "File", dev |-> 1, ino |-> 2, nlink |-> 2, size |-> 100],
     d |-> [kind |-> "Directory", dev |-> 1, ino |-> 3, nlink |-> 2, size |-> 4096],
     s |-> [kind |-> "SymbolicLink", dev |-> 1, ino |-> 4, nlink |-> 1, size |-> 1],
     l |-> [kind |-> "File", dev |-> 1, ino |-> 5, nlink |-> 1, size |-> 512],
     p |-> [kind |-> "FIFO", dev |-> 1, ino |-> 6, nlink |-> 1, size |-> 0]]

\* the names that fit the path field of a header and are of a type that
\* WriteEntry supports
DiskPaths == {"a", "b", "d", "s"}

\* the names whose header sets needPax
LongPaths == {"l"}

\* all the names WriteEntry objects are made for
WritePaths == DiskPaths \cup LongPaths \cup {"p"}

\* fs.readlink(path)
Readlink(path) == "a"

\* getType(stat), lines 226-233
getType(stat) == stat.kind

NoHeader == [type |-> "none", size |-> 0, path |-> "", linkpath |-> ""]

\* a WriteEntry object: its fields, what it has written (out), where it waits
\* (pc) and the arguments of the pending READ
NewWriteEntry(path) ==
    [path |-> path, stat |-> 0, type |-> "none", linkpath |-> "",
     header |-> NoHeader, out |-> <<>>, ended |-> FALSE, pc |-> "new",
     fd |-> "none", closes |-> 0, bufLen |-> 0, rpos |-> 0, remain |-> 0,
     blockRemain |-> 0, error |-> FALSE,
     \* observation: the bytesRead of the last fs.read that gave no error
     lastRead |-> -1]

\* MiniPass write(chunk) and end() of the WriteEntry stream
WEWrite(W, w, item) == [W EXCEPT !.wes[w].out = Append(@, item)]
WEEnd(W, w) == [W EXCEPT !.wes[w].ended = TRUE, !.wes[w].out = Append(@, <<"end">>)]

\* header.needPax: the path does not fit its field of the header
needPax(W, w) == W.wes[w].path \in LongPaths

\* a HEADER that writes the header block before the Pax entry
HeaderBeforePax(W, w) ==
    LET we == W.wes[w]
        hdr == [type |-> we.type, size |-> W.stats[we.stat].size,
                path |-> we.path, linkpath |-> we.linkpath]
        W1 == WEWrite([W EXCEPT !.wes[w].header = hdr], w, <<"header", hdr>>)
    IN  IF needPax(W1, w) THEN WEWrite(W1, w, <<"pax">>) ELSE W1

\* WriteEntry[HEADER], lines 63-93
HEADER(W, w) ==
    LET we == W.wes[w]
        hdr == [type |-> we.type, size |-> W.stats[we.stat].size,
                path |-> we.path, linkpath |-> we.linkpath]
        W1 == [W EXCEPT !.wes[w].header = hdr]
        W2 == IF needPax(W1, w) THEN WEWrite(W1, w, <<"pax">>) ELSE W1
    IN  WEWrite(W2, w, <<"header", hdr>>)

\* WriteEntry[DIRECTORY], lines 95-98
DIRECTORY(W, w) == WEEnd(HEADER(W, w), w)

\* WriteEntry[ONREADLINK], lines 108-112
ONREADLINK(W, w, linkpath) ==
    WEEnd(HEADER([W EXCEPT !.wes[w].linkpath = linkpath], w), w)

\* WriteEntry[HARDLINK], lines 114-120: this.stat.size = 0 writes to the stat
\* object, which the statCache may hand to other entries too
HARDLINK(W, w, linkpath) ==
    LET W1 == [W EXCEPT !.wes[w].type = "Link",
                        !.wes[w].linkpath = linkpath,
                        !.stats[W.wes[w].stat].size = 0]
    IN  [WEEnd(HEADER(W1, w), w) EXCEPT !.wes[w].pc = "done"]

\* the key of the linkCache: dev + ':' + ino
LinkKey(stat) == <<stat.dev, stat.ino>>

\* WriteEntry[FILE], line 125: this.linkCache.has(linkKey)
IsLinkToCached(W, w, key) == key \in DOMAIN W.linkCache

\* WriteEntry[FILE], lines 122-136
FILE(W, w) ==
    LET stat == W.stats[W.wes[w].stat]
        key == LinkKey(stat)
    IN  IF stat.nlink > 1 /\ IsLinkToCached(W, w, key)
        THEN HARDLINK(W, w, W.linkCache[key])
        ELSE LET W1 == IF stat.nlink > 1
                       THEN [W EXCEPT !.linkCache = (key :> W.wes[w].path) @@ W.linkCache]
                       ELSE W
                 W2 == HEADER(W1, w)
             IN  IF stat.size = 0
                 THEN [WEEnd(W2, w) EXCEPT !.wes[w].pc = "done"]
                 ELSE [W2 EXCEPT !.wes[w].pc = "open"]      \* this[OPENFILE]()

\* WriteEntry[PROCESS], lines 53-61
PROCESS(W, w) ==
    LET t == W.wes[w].type
    IN  IF t = "File" THEN FILE(W, w)
        ELSE IF t = "Directory" THEN [DIRECTORY(W, w) EXCEPT !.wes[w].pc = "done"]
        ELSE IF t = "SymbolicLink" THEN [W EXCEPT !.wes[w].pc = "readlink"]
        ELSE [WEEnd(W, w) EXCEPT !.wes[w].pc = "done"]

\* WriteEntry[ONLSTAT], lines 45-51, with the stat object st (an index of stats)
ONLSTAT(W, w, st) ==
    LET W1 == [W EXCEPT !.statCache = IF W.shared THEN (W.wes[w].path :> st) @@ @ ELSE @,
                        !.wes[w].stat = st,
                        !.wes[w].type = getType(W.stats[st])]
    IN  PROCESS(W1, w)

\* new WriteEntry(path, linkCache, statCache), lines 25-35
Construct(W, path) ==
    LET w == Len(W.wes) + 1
        W1 == [W EXCEPT !.wes = Append(@, NewWriteEntry(path))]
    IN  IF W.shared /\ path \in DOMAIN W.statCache
        THEN ONLSTAT(W1, w, W.statCache[path])
        ELSE [W1 EXCEPT !.wes[w].pc = "lstat"]              \* this[LSTAT]()

\* the callback of fs.lstat, lines 38-42: lstat returns a new stat object
LstatCallback(W, w, er) ==
    IF er THEN [W EXCEPT !.wes[w].error = TRUE, !.wes[w].pc = "error"]
    ELSE LET st == Len(W.stats) + 1
         IN  ONLSTAT([W EXCEPT !.stats = Append(@, Disk[W.wes[w].path])], w, st)

\* the callback of fs.readlink, lines 101-105
ReadlinkCallback(W, w, er) ==
    IF er THEN [W EXCEPT !.wes[w].error = TRUE, !.wes[w].pc = "error"]
    ELSE [ONREADLINK(W, w, Readlink(W.wes[w].path)) EXCEPT !.wes[w].pc = "done"]

\* blockLen of ONOPENFILE, line 147
BlockLen(size) == BLOCK * CeilBlocks(size)

\* WriteEntry[ONOPENFILE], lines 146-151, and the READ it starts
ONOPENFILE(W, w) ==
    LET size == W.stats[W.wes[w].stat].size
        blockLen == BlockLen(size)
    IN  [W EXCEPT !.wes[w].fd = "open",
                  !.wes[w].bufLen = Min(blockLen, maxReadSize),
                  !.wes[w].rpos = 0,
                  !.wes[w].remain = size,
                  !.wes[w].blockRemain = blockLen,
                  !.wes[w].pc = "read"]

\* the callback of fs.open, lines 139-143
OpenCallback(W, w, er) ==
    IF er THEN [W EXCEPT !.wes[w].error = TRUE, !.wes[w].pc = "error"]
    ELSE ONOPENFILE(W, w)

\* WriteEntry[CLOSE]
CLOSE(W, w) == [W EXCEPT !.wes[w].fd = "closed", !.wes[w].closes = @ + 1]

\* WriteEntry[ONREAD], lines 165-187
ONREAD(W, w, bytesRead0) ==
    LET we == W.wes[w]
    IN  IF bytesRead0 = 0
        THEN [W EXCEPT !.wes[w].pc = "threw",                 \* throw ('wat')
                       !.wes[w].lastRead = 0]
        ELSE
        LET pad == IF bytesRead0 = we.remain
                   THEN Max(0, Min(we.bufLen - bytesRead0, we.blockRemain - bytesRead0))
                   ELSE 0
            bytesRead == bytesRead0 + pad
            remain == we.remain + pad - bytesRead
            blockRemain == we.blockRemain - bytesRead
            W1 == WEWrite(W, w, <<"data", bytesRead>>)
            W2 == [W1 EXCEPT !.wes[w].remain = remain,
                             !.wes[w].blockRemain = blockRemain,
                             !.wes[w].rpos = @ + bytesRead,
                             !.wes[w].lastRead = bytesRead0]
        IN  IF remain = 0
            THEN LET W3 == IF blockRemain # 0
                           THEN WEWrite(W2, w, <<"data", blockRemain>>)
                           ELSE W2
                 IN  [CLOSE(WEEnd(W3, w), w) EXCEPT !.wes[w].pc = "done"]
            ELSE W2                                            \* this[READ](...) again

\* the callback of fs.read, lines 154-158
ReadCallback(W, w, er, bytesRead) ==
    IF er THEN [CLOSE(W, w) EXCEPT !.wes[w].error = TRUE, !.wes[w].pc = "error"]
    ELSE ONREAD(W, w, bytesRead)

\* what fs.read can return for the pending READ of w: up to buf.length bytes
\* of what the file holds from rpos on, the first read possibly a short one;
\* 0 when nothing is left or asked for, or when the file has been truncated
\* since it was lstat'ed; a buffer full when the file has grown since then to
\* the length of the buffer
ReadSizes(W, w) ==
    LET avail == Max(0, Min(W.wes[w].bufLen, Disk[W.wes[w].path].size - W.wes[w].rpos))
    IN  {avail} \cup {n \in {50, W.wes[w].bufLen} : n # avail /\ W.wes[w].rpos = 0} \cup {0}

----------------------------------------------------------------------------
\* The parser as a state machine: a producer that writes the archive's stream
\* in chunks of its choosing, and a consumer that drains the emitted entries.

\* the Parser object, and the set of entries the consumer's handler drains at once
This(eager) ==
    [state |-> state, buffer |-> buffer, queue |-> queue, readEntry |-> readEntry,
     writeEntry |-> writeEntry, ended |-> ended, unzip |-> unzip, meta |-> meta,
     ex |-> ex, gex |-> gex, ents |-> ents, log |-> log, thrown |-> thrown,
     maxMetaEntrySize |-> thisMaxMetaEntrySize,
     chunk |-> Null, ret |-> "none", eager |-> eager]

Becomes(q) ==
    /\ state' = q.state
    /\ buffer' = q.buffer
    /\ queue' = q.queue
    /\ readEntry' = q.readEntry
    /\ writeEntry' = q.writeEntry
    /\ ended' = q.ended
    /\ unzip' = q.unzip
    /\ meta' = q.meta
    /\ ex' = q.ex
    /\ gex' = q.gex
    /\ ents' = q.ents
    /\ log' = q.log
    /\ thrown' = q.thrown
    /\ lastRet' = q.ret

\* a well-formed entry: the header and its body padded to whole blocks
\* wide: the offsets in the body that lie inside a multi-byte character
Entry(t, s, k) ==
    [type |-> t, size |-> s, body |-> BLOCK * CeilBlocks(s), keep |-> k, wide |-> {}]

\* an entry of a stream that was cut off: the header and only n bytes of body
Truncated(t, s, n) == [Entry(t, s, TRUE) EXCEPT !.body = n]

Kinds ==
    { Entry("File", 0, TRUE), Entry("File", 0, FALSE), Entry("Null", 0, TRUE),
      Entry("File", 100, TRUE), Entry("ExtendedHeader", 100, TRUE),
      Entry("Unknown", 100, TRUE), Entry("File", 600, TRUE),
      Entry("Unknown", 600, TRUE), Truncated("File", 100, 100) }

\* the number of blocks of the entries i.. of an archive
RECURSIVE Blocks(_, _)
Blocks(a, i) == IF i > Len(a) THEN 0 ELSE 1 + CeilBlocks(a[i].body) + Blocks(a, i + 1)

Archives ==
    { a \in UNION { [1..n -> Kinds] : n \in 1..MaxBlocks } : Blocks(a, 1) <= MaxBlocks }

\* the lengths of the chunks the producer cuts the stream into
ChunkLens == {512, 600}

\* new Parser(opt), lines 87-104
NewParser ==
    [state |-> "begin", buffer |-> Null, queue |-> <<>>, readEntry |-> 0,
     writeEntry |-> 0, ended |-> FALSE, unzip |-> "null", meta |-> <<>>,
     ex |-> Null, gex |-> Null, ents |-> [i \in 1..Len(archive) |-> NoEntry],
     log |-> <<>>, thrown |-> FALSE, maxMetaEntrySize |-> thisMaxMetaEntrySize,
     chunk |-> Null, ret |-> "none", eager |-> {}]

ParserInit ==
    /\ pos = 0
    /\ writes = 0
    /\ lastRet = NewParser.ret
    /\ state = NewParser.state
    /\ buffer = NewParser.buffer
    /\ queue = NewParser.queue
    /\ readEntry = NewParser.readEntry
    /\ writeEntry = NewParser.writeEntry
    /\ ended = NewParser.ended
    /\ unzip = NewParser.unzip
    /\ meta = NewParser.meta
    /\ ex = NewParser.ex
    /\ gex = NewParser.gex
    /\ ents = NewParser.ents
    /\ log = NewParser.log
    /\ thrown = NewParser.thrown

Emitted(e) == \E i \in 1..Len(log) : log[i] = <<"entry", e>>

\* what the consumer's 'entry' handler may do with the entries still to come
Handlers == SUBSET {e \in 1..Len(archive) : ~Emitted(e)}

\* parser.write(chunk) with the next n bytes of the stream
Write(n) ==
    /\ ~ended /\ ~thrown
    /\ pos + n <= WrittenLen
    /\ \E eager \in Handlers : Becomes(ParserWrite(This(eager), <<pos, pos + n>>))
    /\ pos' = pos + n
    /\ writes' = writes + 1
    /\ UNCHANGED <<archive, gzipped, thisMaxMetaEntrySize>>
    /\ UNCHANGED <<writeVars, unpackVars>>

\* parser.end(chunk) with the last n bytes of the stream
EndWith(n) ==
    /\ ~ended /\ ~thrown
    /\ pos + n = WrittenLen
    /\ \E eager \in Handlers : Becomes(ParserEnd(This(eager), <<pos, pos + n>>))
    /\ pos' = pos + n
    /\ writes' = writes + 1
    /\ UNCHANGED <<archive, gzipped, thisMaxMetaEntrySize>>
    /\ UNCHANGED <<writeVars, unpackVars>>

\* parser.end() once the whole stream is written
End ==
    /\ ~ended /\ ~thrown
    /\ pos = WrittenLen
    /\ \E eager \in Handlers : Becomes(ParserEnd(This(eager), Null))
    /\ writes' = writes + 1
    /\ UNCHANGED <<archive, gzipped, pos, thisMaxMetaEntrySize>>
    /\ UNCHANGED <<writeVars, unpackVars>>

\* the consumer starts draining an entry it was handed earlier
Resume(e) ==
    /\ Emitted(e)
    /\ ~ents[e].flowing
    /\ \E eager \in Handlers :
          LET q == EntryResume(This(eager), e)
          IN  Becomes([q EXCEPT !.ret = lastRet])
    /\ UNCHANGED <<archive, gzipped, pos, writes, thisMaxMetaEntrySize>>
    /\ UNCHANGED <<writeVars, unpackVars>>

ParserNext ==
    \/ \E n \in ChunkLens \cup {WrittenLen - pos} : n > 0 /\ Write(n)
    \/ \E n \in ChunkLens \cup {WrittenLen - pos} : n > 0 /\ EndWith(n)
    \/ End
    \/ \E e \in 1..Len(archive) : Resume(e)

\* The producer that the comment of lines 10-12 has in mind: it writes the
\* stream block by block, so that no chunk holds more than one entry, and
\* after a write that returned false it writes again only after 'drain'.
\* Nothing is queued between the false return and the 'drain', and
\* [NEXTENTRY] emits 'drain' when it leaves the queue empty (lines 153-154):
\* 'drain' has come since the false return exactly when the queue is empty.
Paused == lastRet = "false" /\ queue # <<>>

PoliteWrite ==
    /\ ~Paused
    /\ Write(BLOCK)

PoliteEnd ==
    /\ ~Paused
    /\ End

PoliteNext ==
    \/ PoliteWrite
    \/ PoliteEnd
    \/ \E e \in 1..Len(archive) : Resume(e)

\* no WriteEntry object is made
WriteIdle ==
    /\ wes = <<>>
    /\ stats = <<>>
    /\ linkCache = <<>>
    /\ statCache = <<>>
    /\ sharedStatCache = FALSE

\* nothing is extracted
UnpackIdle ==
    /\ unpackPath = <<"">>
    /\ strip = 0
    /\ fixArg = <<"">>
    /\ fixed = <<>>
    /\ entries = <<>>
    /\ nextEntry = 1
    /\ curEntry = 0
    /\ madeDirs = <<>>
    /\ ops = {}
    /\ fsys = <<>>
    /\ fsys0 = <<>>
    /\ ulog = {}
    /\ linkCalls = <<>>

\* opt.maxMetaEntrySize, lines 89-92: not given, or given as a small limit
MaxMetaEntrySizes == {maxMetaEntrySize, 50}

Init ==
    /\ archive \in Archives
    /\ thisMaxMetaEntrySize \in MaxMetaEntrySizes
    /\ gzipped = FALSE
    /\ ParserInit
    /\ WriteIdle
    /\ UnpackIdle

Next == ParserNext

Spec == Init /\ [][Next]_vars

SpecPolite == Init /\ [][PoliteNext]_vars

----------------------------------------------------------------------------
\* WriteEntry objects as a state machine: the caller makes objects for paths
\* of Disk, all with one linkCache (and one statCache, or each its own), and
\* the callbacks of their filesystem calls run in any order.

WState ==
    [wes |-> wes, stats |-> stats, linkCache |-> linkCache,
     statCache |-> statCache, shared |-> sharedStatCache]

WBecomes(W) ==
    /\ wes' = W.wes
    /\ stats' = W.stats
    /\ linkCache' = W.linkCache
    /\ statCache' = W.statCache
    /\ UNCHANGED sharedStatCache
    /\ UNCHANGED <<parserVars, unpackVars>>

\* no archive is parsed
ParserIdle ==
    /\ archive = <<>>
    /\ thisMaxMetaEntrySize = maxMetaEntrySize
    /\ gzipped = FALSE
    /\ ParserInit

WriteInit ==
    /\ wes = <<>>
    /\ stats = <<>>
    /\ linkCache = <<>>
    /\ statCache = <<>>
    /\ sharedStatCache \in BOOLEAN
    /\ ParserIdle
    /\ UnpackIdle

WNew(path) ==
    /\ Len(wes) < MaxWriteEntries
    /\ WBecomes(Construct(WState, path))

WLstat(w, er) ==
    /\ wes[w].pc = "lstat"
    /\ WBecomes(LstatCallback(WState, w, er))

WReadlink(w, er) ==
    /\ wes[w].pc = "readlink"
    /\ WBecomes(ReadlinkCallback(WState, w, er))

WOpen(w, er) ==
    /\ wes[w].pc = "open"
    /\ WBecomes(OpenCallback(WState, w, er))

WRead(w, er, n) ==
    /\ wes[w].pc = "read"
    /\ WBecomes(ReadCallback(WState, w, er, n))

WriteNext ==
    \/ \E path \in WritePaths : WNew(path)
    \/ \E w \in 1..Len(wes), er \in BOOLEAN : WLstat(w, er)
    \/ \E w \in 1..Len(wes), er \in BOOLEAN : WReadlink(w, er)
    \/ \E w \in 1..Len(wes), er \in BOOLEAN : WOpen(w, er)
    \/ \E w \in 1..Len(wes), er \in BOOLEAN :
          \E n \in ReadSizes(WState, w) : WRead(w, er, n)

SpecWrite == WriteInit /\ [][WriteNext]_vars

\* the bytes a WriteEntry has written after its header
RECURSIVE BodyBytes(_)
BodyBytes(out) ==
    IF out = <<>> THEN 0
    ELSE (IF Head(out)[1] = "data" THEN Head(out)[2] ELSE 0) + BodyBytes(Tail(out))

\* the objects made for names of the inode that a and b share
Sharers == {w \in 1..Len(wes) : LinkKey(Disk[wes[w].path]) = LinkKey(Disk["a"])}

\* the file of w was found shorter than its lstat size when it was read
Shrunk(w) == wes[w].lastRead = 0 /\ wes[w].remain > 0

\* every such object has run to its end, none met an I/O error or a file
\* that had shrunk
Settled ==
    /\ Cardinality(Sharers) >= 2
    /\ \A w \in Sharers :
          wes[w].pc \in {"done", "threw"} /\ ~wes[w].error /\ ~Shrunk(w)

\* w wrote a File header and then the whole body, padded to whole blocks
WroteFullFile(w) ==
    /\ wes[w].header.type = "File"
    /\ wes[w].header.size = Disk[wes[w].path].size
    /\ wes[w].out[1][1] = "header"
    /\ BodyBytes(wes[w].out) = BlockLen(Disk[wes[w].path].size)
    /\ wes[w].ended

\* w wrote a Link header with size 0 and linkpath lp, and no body
WroteLink(w, lp) ==
    /\ wes[w].header.type = "Link"
    /\ wes[w].header.size = 0
    /\ wes[w].header.linkpath = lp
    /\ BodyBytes(wes[w].out) = 0
    /\ wes[w].ended

\* C9: of the WriteEntry objects that share a linkCache and an inode with
\* link count > 1, exactly one writes a File header and the full body, and
\* every other one a Link header of size 0 whose linkpath is that one's path.
C9_OneFileOthersLinks ==
    Settled =>
        \E f \in Sharers :
            /\ WroteFullFile(f)
            /\ \A w \in Sharers \ {f} : WroteLink(w, wes[f].path)

\* C10: objects made for a and then b, with one linkCache and one inode:
\* a is written as a File with its body and b as a Link to a, whichever
\* lstat completes first.
C10_FirstConstructedIsTheFile ==
    (/\ Len(wes) = 2
     /\ wes[1].path = "a" /\ wes[2].path = "b"
     /\ Settled) =>
        /\ WroteFullFile(1)
        /\ WroteLink(2, "a")

\* C11: a File with link count > 1 becomes a hard link only when the
\* linkCache maps its dev:ino key to a path other than its own: no object
\* writes a Link header whose linkpath is the object's own path.
C11_NoLinkToItself ==
    \A w \in 1..Len(wes) :
        wes[w].header.type = "Link" => wes[w].header.linkpath # wes[w].path


\* C26: a read that returns 0 bytes while bytes of the file remain to be
\* read is reported by an 'error' event of the WriteEntry: nothing is thrown
\* out of the read callback and the read is not made again.
C26_ZeroReadIsAnErrorEvent ==
    \A w \in 1..Len(wes) :
        Shrunk(w) =>
            /\ wes[w].error
            /\ wes[w].pc = "error"

\* the places of the writes of one kind in what an object has written
Positions(out, kind) == {i \in 1..Len(out) : out[i][1] = kind}

\* the types WriteEntry[PROCESS] writes a header for
HeaderTypes == {"File", "Link", "Directory", "SymbolicLink"}

\* C29: a WriteEntry writes the Pax entry first when header.needPax is set,
\* then the header block once, then the body in file order with its padding,
\* then end: no body byte comes before the header and nothing after end.
\* An object of an unsupported type writes nothing but end.
C29_OutputOrder ==
    \A w \in 1..Len(wes) :
        LET out == wes[w].out
            pax == needPax(WState, w)
            first == IF pax THEN 2 ELSE 1
        IN  /\ Positions(out, "pax") \subseteq (IF pax THEN {1} ELSE {})
            /\ Positions(out, "header") \subseteq {first}
            /\ (pax /\ Positions(out, "header") # {}) => out[1][1] = "pax"
            /\ \A i \in Positions(out, "data") :
                    i > first /\ out[first][1] = "header"
            /\ Positions(out, "end") \subseteq {Len(out)}
            /\ wes[w].ended => out # <<>> /\ out[Len(out)][1] = "end"
            /\ (wes[w].ended /\ wes[w].type \in HeaderTypes) =>
                    Positions(out, "header") = {first}
            /\ (wes[w].ended /\ wes[w].type \notin HeaderTypes) => out = << <<"end">> >>
            /\ wes[w].pc = "read" => BodyBytes(out) = wes[w].rpos

\* an object whose header needs a Pax entry has written its Pax entry, its
\* header, its body in two reads and end
C29_Witness ==
    \E w \in 1..Len(wes) :
        /\ needPax(WState, w)
        /\ Len(wes[w].out) = 5
        /\ [i \in 1..5 |-> wes[w].out[i][1]] = <<"pax", "header", "data", "data", "end">>
        /\ BodyBytes(wes[w].out) = Disk[wes[w].path].size

\* C35: a WriteEntry that has written a header and ended has written, after
\* the header block, the size recorded in that header rounded up to a
\* multiple of 512, whatever its type: an entry without body has a header
\* of size 0.
C35_BodyMatchesHeaderSize ==
    \A w \in 1..Len(wes) :
        (wes[w].ended /\ Positions(wes[w].out, "header") # {}) =>
            BodyBytes(wes[w].out) = BLOCK * CeilBlocks(wes[w].header.size)

----------------------------------------------------------------------------
\* The older WriteEntry (the variant without a statCache).  Its constructor
\* always calls fs.lstat, and its [PROCESS], [HEADER], [DIRECTORY], [SYMLINK],
\* [HARDLINK] and [FILE] up to fs.open do what those of write-entry.js do
\* for an object with a statCache of its own; the callbacks of fs.open and
\* fs.read are its own.

\* blockLen of the callback of fs.open, line 114
OldBlockLen(size) == BLOCK * (1 + size \div BLOCK)

\* the callback of fs.open, lines 111-118
OldOpenCallback(W, w, er) ==
    IF er THEN [W EXCEPT !.wes[w].error = TRUE, !.wes[w].pc = "error"]
    ELSE LET size == W.stats[W.wes[w].stat].size
             blockLen == OldBlockLen(size)
         IN  [W EXCEPT !.wes[w].fd = "open",
                       !.wes[w].bufLen = Min(blockLen, maxReadSize),
                       !.wes[w].rpos = 0,
                       !.wes[w].remain = size,
                       !.wes[w].blockRemain = blockLen,
                       !.wes[w].pc = "read"]

\* the callback of fs.read in WriteEntry[READ], lines 122-146
OldReadCallback(W, w, er, bytesRead0) ==
    LET we == W.wes[w]
    IN  IF er
        THEN [W EXCEPT !.wes[w].fd = "closed", !.wes[w].closes = @ + 1,
                       !.wes[w].error = TRUE, !.wes[w].pc = "error"]
        ELSE IF bytesRead0 = 0
        THEN [W EXCEPT !.wes[w].pc = "threw",                 \* throw ('wat')
                       !.wes[w].lastRead = 0]
        ELSE
        LET pad == IF bytesRead0 = we.remain
                   THEN Max(0, Min(we.bufLen - bytesRead0, we.blockRemain - bytesRead0))
                   ELSE 0
            bytesRead == bytesRead0 + pad
            remain == we.remain + pad - bytesRead
            blockRemain == we.blockRemain - bytesRead
            W1 == WEWrite(W, w, <<"data", bytesRead>>)
            W2 == [W1 EXCEPT !.wes[w].remain = remain,
                             !.wes[w].blockRemain = blockRemain,
                             !.wes[w].rpos = @ + bytesRead,
                             !.wes[w].lastRead = bytesRead0]
        IN  IF remain = 0
            THEN LET W3 == IF blockRemain # 0
                           THEN WEWrite(W2, w, <<"data", blockRemain>>)
                           ELSE W2
                 IN  [WEEnd(W3, w) EXCEPT !.wes[w].fd = "closed",
                                          !.wes[w].closes = @ + 1,
                                          !.wes[w].pc = "done"]
            ELSE W2                                            \* this[READ](...) again

OldWriteInit ==
    /\ wes = <<>>
    /\ stats = <<>>
    /\ linkCache = <<>>
    /\ statCache = <<>>
    /\ sharedStatCache = FALSE
    /\ ParserIdle
    /\ UnpackIdle

OldOpen(w, er) ==
    /\ wes[w].pc = "open"
    /\ WBecomes(OldOpenCallback(WState, w, er))

OldRead(w, er, n) ==
    /\ wes[w].pc = "read"
    /\ WBecomes(OldReadCallback(WState, w, er, n))

OldWriteNext ==
    \/ \E path \in WritePaths : WNew(path)
    \/ \E w \in 1..Len(wes), er \in BOOLEAN : WLstat(w, er)
    \/ \E w \in 1..Len(wes), er \in BOOLEAN : WReadlink(w, er)
    \/ \E w \in 1..Len(wes), er \in BOOLEAN : OldOpen(w, er)
    \/ \E w \in 1..Len(wes), er \in BOOLEAN :
          \E n \in ReadSizes(WState, w) : OldRead(w, er, n)

SpecOldWrite == OldWriteInit /\ [][OldWriteNext]_vars

\* w was made for a File with bytes in it and has run to its end
WroteBody(w) ==
    /\ wes[w].type = "File"
    /\ wes[w].header.size > 0
    /\ wes[w].pc = "done"

\* C30: for a File of size s > 0 the bytes a WriteEntry writes after the
\* header, the data of the file and the zero padding, are 512 * ceil(s / 512)
\* in number, whether s is a multiple of 512 or not, in the older WriteEntry
\* as in write-entry.js.
C30_BodyIsWholeBlocks ==
    \A w \in 1..Len(wes) :
        WroteBody(w) => BodyBytes(wes[w].out) = BLOCK * CeilBlocks(wes[w].header.size)

\* w was made for a File with bytes in it, and no fs.read of it gave 0 bytes
ReadsGaveBytes(w) ==
    /\ wes[w].type = "File"
    /\ wes[w].header.size > 0
    /\ wes[w].pc \in {"read", "done"}
    /\ wes[w].lastRead # 0

\* C37: for a File of size > 0 whose reads each give at least 1 byte and at
\* most a buffer full, the read loop comes to its end: remain is never
\* negative, so that it reaches 0 after at most size reads, and then the body
\* written is the size padded to whole blocks.
C37_ReadLoopTerminates ==
    \A w \in 1..Len(wes) :
        ReadsGaveBytes(w) =>
            /\ wes[w].remain >= 0
            /\ Len(wes[w].out) <= 2 + wes[w].header.size
            /\ wes[w].pc = "done" =>
                    BodyBytes(wes[w].out) = BLOCK * CeilBlocks(wes[w].header.size)

\* w opened its file and its read loop has stopped: after the last read, on
\* an error of fs.read or on a read of 0 bytes
LoopStopped(w) ==
    /\ wes[w].fd # "none"
    /\ wes[w].pc \in {"done", "error", "threw"}

\* C38: the file descriptor a WriteEntry opened is closed exactly once on
\* every path that stops the read loop: after the last read, after an error
\* of fs.read and after a read of 0 bytes.
C38_FdClosedOnce ==
    \A w \in 1..Len(wes) :
        LoopStopped(w) => wes[w].closes = 1 /\ wes[w].fd = "closed"

----------------------------------------------------------------------------
\* Observations

IsEntryEvent(ev) == ev[1] = "entry"
EventEntry(ev) == ev[2]

RECURSIVE EntriesOf(_)
\* the entries of the 'entry' events of a log, in the order they were emitted
EntriesOf(l) ==
    IF l = <<>> THEN <<>>
    ELSE IF IsEntryEvent(Head(l)) THEN <<EventEntry(Head(l))>> \o EntriesOf(Tail(l))
    ELSE EntriesOf(Tail(l))

\* the whole stream has been handed to the parser (or a write threw) and the
\* consumer has drained every entry: nothing more will be emitted
Finished ==
    /\ ended \/ thrown
    /\ queue = <<>>
    /\ \A e \in 1..Len(archive) : Emitted(e) => ents[e].emittedEnd \/ (ents[e].flowing /\ thrown)

\* the stream passed as one single chunk, to a consumer that drains every entry
SingleChunk ==
    ParserEnd([NewParser EXCEPT !.eager = 1..Len(archive)], <<0, StreamLen>>)

\* C1: however the stream is cut into chunks, the parser emits the same
\* sequence of entries and hands each entry the same body bytes as when the
\* stream is passed as one single chunk.
C1_ChunkingEquivalence ==
    Finished =>
        /\ EntriesOf(log) = EntriesOf(SingleChunk.log)
        /\ \A e \in 1..Len(archive) : ents[e].data = SingleChunk.ents[e].data


\* C2: an entry is emitted only after the entry emitted before it has emitted
\* 'end': between two 'entry' events of the log lies the 'end' of the first.
C2_OneActiveEntry ==
    \A i, j \in 1..Len(log) :
        (i < j /\ IsEntryEvent(log[i]) /\ IsEntryEvent(log[j])) =>
            \E k \in (i + 1)..(j - 1) : log[k] = <<"end", EventEntry(log[i])>>

\* an emitted entry that the consumer has not drained holds back a parsed one
C2_Witness ==
    /\ readEntry # 0
    /\ ~ents[readEntry].emittedEnd
    /\ queue # <<>>

\* the headers of the archive that are valid and neither meta nor ignored
RECURSIVE ValidEntries(_)
ValidEntries(i) ==
    IF i > Len(archive) THEN <<>>
    ELSE IF /\ archive[i].type \in KnownTypes
            /\ archive[i].keep
         THEN <<i>> \o ValidEntries(i + 1)
         ELSE ValidEntries(i + 1)

C33_QueueHoldsAtMostOne == Len(queue) <= 1

\* the offset of the first byte of the stream that the parser has not consumed
Consumed == pos - (IF buffer = Null THEN 0 ELSE BufLen(buffer))

\* the 512 bytes at offset off have been read as a header
ReadAsHeader(off) ==
    \/ \E k \in 1..Len(log) : log[k] = <<"invalidHeader", off>>
    \/ HeaderAt(off) # 0 /\ ents[HeaderAt(off)].created

\* the parser after one turn of the loop of CONSUMECHUNK on the rest of the stream
AfterNextBlock == ConsumeStep([This({}) EXCEPT !.chunk = <<Consumed, StreamLen>>])

\* C13: a block read in state begin whose checksum is invalid makes the
\* parser emit invalidHeader, consume that one block, create no entry and
\* stay in begin; the block after it is read as a header, also after two
\* consecutive null blocks.
C13_InvalidHeaderSkipsOneBlock ==
    /\ (/\ state = "begin" /\ ~thrown
        /\ Consumed + BLOCK <= StreamLen
        /\ ~cksumValid(HeaderAt(Consumed))) =>
           /\ AfterNextBlock.log = Append(log, <<"invalidHeader", Consumed>>)
           /\ AfterNextBlock.chunk = <<Consumed + BLOCK, StreamLen>>
           /\ AfterNextBlock.state = "begin"
           /\ AfterNextBlock.ents = ents
           /\ AfterNextBlock.queue = queue
           /\ ~AfterNextBlock.thrown
    /\ \A k \in 1..Len(log) :
           log[k][1] = "invalidHeader" =>
               /\ HeaderAt(log[k][2]) # 0 => ~ents[HeaderAt(log[k][2])].created
               /\ (~thrown /\ Consumed >= log[k][2] + 2 * BLOCK) =>
                      ReadAsHeader(log[k][2] + BLOCK)

\* two consecutive null blocks have been skipped and the header after them
\* has made an entry
C13_Witness ==
    \E i \in 1..Len(archive) :
        /\ i + 2 <= Len(archive)
        /\ archive[i].type = "Null" /\ archive[i + 1].type = "Null"
        /\ \E k \in 1..Len(log) : log[k] = <<"invalidHeader", HdrOff(i)>>
        /\ \E k \in 1..Len(log) : log[k] = <<"invalidHeader", HdrOff(i + 1)>>
        /\ ents[i + 2].created

\* the offsets of the blocks that consumeHeader has decoded as a header
Decoded ==
    {HdrOff(e) : e \in {f \in 1..Len(archive) : ents[f].created}} \cup
    {log[k][2] : k \in {j \in 1..Len(log) : log[j][1] = "invalidHeader"}}

\* the offset of the first block decoded as a header after offset off, -1
\* when there is none
NextDecoded(off) ==
    LET later == {o \in Decoded : o > off}
    IN  IF later = {} THEN -1 ELSE CHOOSE o \in later : \A q \in later : o <= q

\* C34: for every chunking each block decoded as a header starts at a
\* multiple of 512 of the stream, between a valid header and the next block
\* decoded as a header lie the entry's size rounded up to 512 bytes, and the
\* slack kept between writes is shorter than 512 bytes.
C34_HeadersOnBlockGrid ==
    /\ \A o \in Decoded : o % BLOCK = 0
    /\ \A e \in 1..Len(archive) :
          (ents[e].created /\ NextDecoded(HdrOff(e)) # -1) =>
              NextDecoded(HdrOff(e)) = HdrOff(e) + BLOCK + BLOCK * CeilBlocks(archive[e].size)
    /\ buffer # Null => BufLen(buffer) < BLOCK

\* C14: a meta entry larger than maxMetaEntrySize is reported with
\* metaEntryTooLarge and marked ignored, and the parser goes on in state
\* ignore: the entry's blockRemain bytes are skipped and the block after
\* them is read as the next header.
C14_OversizeMetaIsSkipped ==
    \A k \in 1..Len(log) :
        log[k][1] = "metaEntryTooLarge" =>
            /\ ents[log[k][2]].ignore
            /\ k = Len(log) => ~thrown
            /\ (~thrown /\ Consumed < HdrOff(log[k][2] + 1)) =>
                   state = "ignore" /\ writeEntry = log[k][2]
            /\ (~thrown /\ Consumed >= HdrOff(log[k][2] + 1) + BLOCK) =>
                   ReadAsHeader(HdrOff(log[k][2] + 1))

\* the entry that this[WRITEENTRY] holds while a body is consumed
Written0 == ents[writeEntry]

\* C21: at every point of parsing the entry being written has
\* 0 <= remain <= blockRemain, in the states body, meta and ignore.
C21_RemainWithinBlockRemain ==
    (~thrown /\ state \in {"body", "meta", "ignore"}) =>
        /\ 0 <= Written0.remain
        /\ Written0.remain <= Written0.blockRemain

\* C22: at every point of parsing the blockRemain of the entry being written
\* is 0 or a multiple of 512.
C22_BlockRemainOnGrid ==
    (~thrown /\ state \in {"body", "meta", "ignore"}) =>
        Written0.blockRemain % BLOCK = 0

EndEmitted(l) == \E k \in 1..Len(l) : l[k] = <<"end">>

\* C24: the parser's 'end' is emitted only when no parsed entry waits in the
\* queue and the active entry has ended.
C24_EndOnlyWhenDrained ==
    [][(~EndEmitted(log) /\ EndEmitted(log')) =>
          /\ queue' = <<>>
          /\ readEntry' = 0]_vars

\* C25: a parser that is ended while 1 to 511 bytes are still buffered
\* signals an error.
C25_EndMidBlockIsFatal ==
    (ended /\ buffer # Null /\ BufLen(buffer) \in 1..(BLOCK - 1)) =>
        \/ thrown
        \/ \E k \in 1..Len(log) : log[k][1] = "error"

----------------------------------------------------------------------------
\* A ReadEntry that is written to directly, as test/read-entry.js does: the
\* entry is made from a header, given a 'data' listener, and then written
\* the bytes that follow the header in pieces, and ended.

ReadEntryKinds ==
    { Entry("File", 23, TRUE), Entry("File", 100, TRUE), Entry("File", 512, TRUE),
      Entry("File", 600, TRUE), Entry("NextFileHasLongLinkpath", 23, TRUE),
      Entry("Unknown", 23, TRUE), Entry("Unknown", 600, TRUE) }

\* the lengths of the buffers written: body.slice(0, 1), body.slice(1, 25),
\* body.slice(25), a block, and Buffer.alloc(1024)
PieceLens == {1, 24, 487, 512, 1024}

ReadEntryInit ==
    /\ archive \in {<<k>> : k \in ReadEntryKinds}
    /\ gzipped = FALSE
    /\ thisMaxMetaEntrySize = maxMetaEntrySize
    /\ pos = BLOCK
    /\ writes = 0
    /\ lastRet = NewParser.ret
    /\ state = NewParser.state
    /\ buffer = NewParser.buffer
    /\ queue = NewParser.queue
    /\ readEntry = NewParser.readEntry
    /\ writeEntry = NewParser.writeEntry
    /\ ended = NewParser.ended
    /\ unzip = NewParser.unzip
    /\ meta = NewParser.meta
    /\ ex = NewParser.ex
    /\ gex = NewParser.gex
    /\ ents = <<[NewReadEntry(1, Null, Null) EXCEPT !.flowing = TRUE]>>
    /\ log = NewParser.log
    /\ thrown = NewParser.thrown
    /\ WriteIdle
    /\ UnpackIdle

\* the entry after entry.write of the next n bytes; a refused write leaves
\* the bytes unwritten
Written(q, n) ==
    /\ Becomes([q EXCEPT !.ret = lastRet])
    /\ pos' = IF q.thrown THEN pos ELSE pos + n

\* entry.write(body.slice(pos, pos + n))
WriteToEntry(n) ==
    /\ ~thrown
    /\ Written(ReadEntryWrite(This({}), 1, <<pos, pos + n>>), n)
    /\ UNCHANGED <<archive, gzipped, writes, thisMaxMetaEntrySize>>
    /\ UNCHANGED <<writeVars, unpackVars>>

\* entry.end()
EndEntryStream ==
    /\ ~thrown
    /\ ~ents[1].eof
    /\ Becomes([EntryEnd(This({}), 1) EXCEPT !.ret = lastRet])
    /\ UNCHANGED <<archive, gzipped, pos, writes, thisMaxMetaEntrySize>>
    /\ UNCHANGED <<writeVars, unpackVars>>

ReadEntryNext ==
    \/ \E n \in PieceLens : WriteToEntry(n)
    \/ EndEntryStream

SpecReadEntry == ReadEntryInit /\ [][ReadEntryNext]_vars

\* the first n bytes that follow the header, as data
FirstBytes(n) == IF n <= 0 THEN <<>> ELSE << <<BLOCK, BLOCK + n>> >>

\* the whole block of the entry has been written to it
BlockWritten == pos = BLOCK + BLOCK * CeilBlocks(archive[1].size)

\* C18: however the blockRemain bytes that follow the header are split
\* across write calls, the data events of a ReadEntry of size s carry the
\* first s of the bytes written, in order, and no padding: at any time the
\* first bytes written up to s, and all s once the block is written.
C18_DataIsFirstSizeBytes ==
    ~ents[1].ignore =>
        /\ ents[1].data = FirstBytes(Min(pos - BLOCK, archive[1].size))
        /\ BlockWritten => ents[1].data = FirstBytes(archive[1].size)

\* a body longer than a block has been written in pieces, padding included
C18_Witness ==
    /\ archive[1].size = 600
    /\ ~ents[1].ignore
    /\ BlockWritten
    /\ ~thrown
    /\ ents[1].data = FirstBytes(600)

\* the entry after a write of n bytes
AfterWrite(n) == ReadEntryWrite(This({}), 1, <<pos, pos + n>>)

\* C19: a write of a buffer longer than the entry's blockRemain raises an
\* error and delivers nothing of the buffer as data, be the entry normal,
\* meta or ignored.
C19_OverlongWriteThrows ==
    \A n \in PieceLens :
        (~thrown /\ n > ents[1].blockRemain) =>
            /\ AfterWrite(n).thrown
            /\ AfterWrite(n).ents[1].data = ents[1].data

\* a write of more than blockRemain bytes has been refused
C19_Witness ==
    /\ thrown
    /\ ~ents[1].eof
    /\ ents[1].blockRemain < 1024

\* C20: an entry whose header is valid but whose type code is in no type
\* table is ignored and never emits data, whatever is written to it.
C20_UnknownTypeNoData ==
    archive[1].type \notin (KnownTypes \cup MetaTypes) =>
        /\ ents[1].ignore
        /\ ents[1].data = <<>>

\* the whole block has been written to an entry of unknown type
C20_Witness ==
    /\ archive[1].type = "Unknown"
    /\ BlockWritten
    /\ ~thrown

----------------------------------------------------------------------------
\* The parser on a stream that is the archive or its gzip file; the first
\* bytes may come in chunks shorter than the gzip header.

\* the lengths of the chunks that the first two bytes may come in
SniffLens == {1, 3}

GzipChunkLens == (IF pos < 2 THEN SniffLens ELSE {}) \cup {BLOCK, WrittenLen - pos}

GzipInit ==
    /\ archive \in Archives
    /\ thisMaxMetaEntrySize = maxMetaEntrySize
    /\ gzipped \in BOOLEAN
    /\ ParserInit
    /\ WriteIdle
    /\ UnpackIdle

GzipNext ==
    \/ \E n \in GzipChunkLens : n > 0 /\ Write(n)
    \/ \E n \in GzipChunkLens : n > 0 /\ EndWith(n)
    \/ End
    \/ \E e \in 1..Len(archive) : Resume(e)

SpecGzip == GzipInit /\ [][GzipNext]_vars

\* C16: the gzip decision is taken when the second byte of the stream has
\* been written, whatever the chunking, from the first two bytes alone; it
\* never changes, and every write after it takes the route decided: what
\* the parser consumes is what was written, or what that inflates to.
C16_GzipDecidedOnce ==
    /\ [](unzip = "null" <=> pos < 2)
    /\ [](unzip # "null" => ((unzip = "unzip") <=> gzipped))
    /\ [][unzip # "null" => unzip' = unzip]_vars
    /\ []((~thrown /\ buffer # Null) =>
            buffer[2] = IF unzip = "unzip" THEN Inflated(pos) ELSE pos)

\* the first two bytes came one at a time, and the stream is being inflated
C16_Witness ==
    /\ writes = 2
    /\ pos = 2
    /\ unzip = "unzip"

\* the number of 'end' events the parser has emitted
EndEvents == Cardinality({k \in 1..Len(log) : log[k] = <<"end">>})

\* C36: when the archive is a whole number of 512-byte blocks the parser
\* emits 'end' once when end has been called, and never more than once,
\* with and without gzip.
C36_EndEmittedOnce ==
    StreamLen % BLOCK = 0 =>
        /\ EndEvents <= 1
        /\ (ended /\ ~thrown) => EndEvents = 1

----------------------------------------------------------------------------
\* The parser on archives whose first entry has a body longer than a block
\* and is followed by another entry, so that a chunk may end between the last
\* body byte and the end of the body's last block with more of the stream
\* to come.

BodyArchives ==
    { <<Entry("File", s, TRUE), e>> :
         s \in {600, 1000}, e \in {Entry("File", 0, TRUE), Entry("File", 100, TRUE)} }

BodyInit ==
    /\ archive \in BodyArchives
    /\ thisMaxMetaEntrySize = maxMetaEntrySize
    /\ gzipped = FALSE
    /\ ParserInit
    /\ WriteIdle
    /\ UnpackIdle

SpecBody == BodyInit /\ [][ParserNext]_vars

\* the size bytes that follow the header of entry e
BodyData(e) ==
    IF archive[e].size = 0 THEN <<>>
    ELSE << <<HdrOff(e) + BLOCK, HdrOff(e) + BLOCK + archive[e].size>> >>

\* C23: the parser ends each entry that is neither meta nor ignored exactly
\* once, when its remain is 0 and it has been handed all its body bytes, and
\* never writes to it or ends it after that.
C23_EndedOnceWhenComplete ==
    \A e \in 1..Len(archive) :
        (ents[e].created /\ ~ents[e].meta /\ ~ents[e].ignore) =>
            /\ ents[e].endCalls <= 1
            /\ ents[e].lateWrites = 0
            /\ ents[e].endCalls = 1 =>
                   ents[e].remain = 0 /\ ents[e].data = BodyData(e)
            /\ (~thrown /\ Consumed >= HdrOff(e) + BLOCK + archive[e].size) =>
                   ents[e].endCalls = 1

----------------------------------------------------------------------------
\* The parser on archives of GNU long-name meta entries followed by the
\* entry they name; the names are short or longer than a block, in ASCII or
\* with a two-byte character across the end of the first body block.

LongName(t, s, wide) == [Entry(t, s, TRUE) EXCEPT !.wide = wide]

LinkpathMetas ==
    { LongName("NextFileHasLongLinkpath", 100, {}),
      LongName("NextFileHasLongLinkpath", 600, {}),
      LongName("NextFileHasLongLinkpath", 600, {BLOCK}) }

PathMetas ==
    { LongName("NextFileHasLongPath", 100, {}),
      LongName("NextFileHasLongPath", 600, {BLOCK}),
      LongName("OldGnuLongPath", 600, {}) }

Named == {Entry("File", 100, TRUE), Entry("Link", 0, TRUE)}

\* meta entries that set overrides of the next entry, and a global one
PerEntryMetas == {Entry("ExtendedHeader", 100, TRUE), Entry("NextFileHasLongPath", 100, TRUE)}
GlobalMeta == Entry("GlobalExtendedHeader", 100, TRUE)

\* the entries after the meta entries: kept, filtered out, of unknown type
Overridden == {Entry("File", 0, TRUE), Entry("File", 0, FALSE), Entry("Unknown", 0, TRUE)}

\* archives in which an entry follows the entry that the overrides are for
OverrideArchives ==
    {<<x, e, Entry("File", 0, TRUE)>> : x \in PerEntryMetas, e \in Overridden} \cup
    {<<GlobalMeta, x, e, Entry("File", 0, TRUE)>> : x \in PerEntryMetas, e \in Overridden} \cup
    {<<x, Entry("Null", 0, TRUE), e, Entry("File", 0, TRUE)>> :
        x \in PerEntryMetas, e \in {Entry("File", 0, TRUE)}} \cup
    {<<Entry("File", 0, TRUE), GlobalMeta, Entry("File", 0, TRUE)>>}

MetaArchives ==
    {<<m, e>> : m \in LinkpathMetas \cup PathMetas, e \in Named} \cup
    {<<k, l, e>> : k \in {LongName("NextFileHasLongLinkpath", 100, {})},
                   l \in {LongName("NextFileHasLongPath", 100, {})}, e \in Named} \cup
    OverrideArchives

MetaInit ==
    /\ archive \in MetaArchives
    /\ thisMaxMetaEntrySize = maxMetaEntrySize
    /\ gzipped = FALSE
    /\ ParserInit
    /\ WriteIdle
    /\ UnpackIdle

SpecMeta == MetaInit /\ [][ParserNext]_vars

\* the body of entry i as a string: its size bytes, decoded in one piece
BodyString(i) == << <<HdrOff(i) + BLOCK, HdrOff(i) + BLOCK + archive[i].size>> >>

\* the first entry after i that is no meta entry, 0 if there is none
NextNonMeta(i) ==
    LET after == {j \in (i + 1)..Len(archive) : archive[j].type \notin MetaTypes}
    IN  IF after = {} THEN 0 ELSE CHOOSE j \in after : \A k \in after : j <= k

\* the field that a long-name meta entry of type t sets
OverrideOf(t) == IF t = "NextFileHasLongLinkpath" THEN "linkpath" ELSE "path"

\* C15: the entry that follows a NextFileHasLongLinkpath (NextFileHasLongPath,
\* OldGnuLongPath) meta entry is created with a linkpath (path) override equal
\* to the meta entry's body string, without padding, for every chunking.
C15_LongNameOverrideIsBody ==
    \A i \in 1..Len(archive) :
        (/\ archive[i].type \in {"NextFileHasLongLinkpath", "NextFileHasLongPath",
                                 "OldGnuLongPath"}
         /\ NextNonMeta(i) # 0
         /\ ents[NextNonMeta(i)].created) =>
            /\ ents[NextNonMeta(i)].extended # Null
            /\ ents[NextNonMeta(i)].extended[OverrideOf(archive[i].type)] = BodyString(i)

\* the meta entries whose bodies an overrides object o was made from
MadeFrom(o) ==
    IF o = Null THEN {}
    ELSE {i \in 1..Len(archive) :
            \/ \E k \in 1..Len(o.pax) : o.pax[k][1] = i
            \/ o.path # Null /\ o.path # <<>> /\ o.path[1][1] = HdrOff(i) + BLOCK
            \/ o.linkpath # Null /\ o.linkpath # <<>> /\ o.linkpath[1][1] = HdrOff(i) + BLOCK}

\* e has a header with a valid checksum and is no meta entry
IsPlainEntry(e) == archive[e].type \notin (MetaTypes \cup {"Null"})

\* the meta entries before e whose per-entry overrides are meant for e:
\* those with no plain entry between them and e
MetasFor(e) ==
    {i \in 1..(e - 1) :
        /\ archive[i].type \in MetaTypes \ {"GlobalExtendedHeader"}
        /\ \A j \in (i + 1)..(e - 1) : ~IsPlainEntry(j)}

\* the global meta entries before e
GlobalsBefore(e) == {i \in 1..(e - 1) : archive[i].type = "GlobalExtendedHeader"}

\* the entry created last
LastCreated ==
    LET made == {e \in 1..Len(archive) : ents[e].created}
    IN  IF made = {} THEN 0 ELSE CHOOSE e \in made : \A f \in made : f <= e

----------------------------------------------------------------------------
\* WriteEntry.Sync, lines 190-222: lstat, readlink, open and read are the
\* synchronous calls, so an object has written everything when its
\* constructor returns.
\* fs.readSync fills the buffer as far as the file goes
WholeRead(W, w) == CHOOSE n \in ReadSizes(W, w) : \A m \in ReadSizes(W, w) : m <= n

RECURSIVE RunSync(_, _)
RunSync(W, w) ==
    IF W.wes[w].pc = "lstat" THEN RunSync(LstatCallback(W, w, FALSE), w)
    ELSE IF W.wes[w].pc = "readlink" THEN RunSync(ReadlinkCallback(W, w, FALSE), w)
    ELSE IF W.wes[w].pc = "open" THEN RunSync(OpenCallback(W, w, FALSE), w)
    ELSE IF W.wes[w].pc = "read" THEN RunSync(ReadCallback(W, w, FALSE, WholeRead(W, w)), w)
    ELSE W

WriteEntrySync(W, path) == RunSync(Construct(W, path), Len(W.wes) + 1)

\* WriteEntry.Sync objects made one after the other for a list of paths
RECURSIVE PackSync(_, _)
PackSync(W, paths) ==
    IF paths = <<>> THEN W ELSE PackSync(WriteEntrySync(W, Head(paths)), Tail(paths))

NoWrites(shared) ==
    [wes |-> <<>>, stats |-> <<>>, linkCache |-> <<>>, statCache |-> <<>>,
     shared |-> shared]

\* the concatenation of what the objects wrote, as an archive: of each its
\* header and the number of bytes it wrote after it
ArchiveOf(W) ==
    [w \in 1..Len(W.wes) |->
        [type |-> W.wes[w].header.type, size |-> W.wes[w].header.size,
         body |-> BodyBytes(W.wes[w].out), keep |-> TRUE, wide |-> {}]]

\* the parser reads what WriteEntry.Sync objects wrote
RoundTripInit ==
    /\ \E paths \in UNION {[1..n -> DiskPaths] : n \in 1..MaxWriteEntries} :
       \E shared \in BOOLEAN :
          LET W == PackSync(NoWrites(shared), paths)
          IN  /\ wes = W.wes
              /\ stats = W.stats
              /\ linkCache = W.linkCache
              /\ statCache = W.statCache
              /\ sharedStatCache = shared
              /\ archive = ArchiveOf(W)
    /\ thisMaxMetaEntrySize = maxMetaEntrySize
    /\ gzipped = FALSE
    /\ ParserInit
    /\ UnpackIdle

SpecRoundTrip == RoundTripInit /\ [][ParserNext]_vars

\* the body bytes that WriteEntry w wrote, by their offsets in the stream
BodyOf(w) ==
    IF wes[w].header.size > 0 /\ BodyBytes(wes[w].out) > 0
    THEN << <<HdrOff(w) + BLOCK, HdrOff(w) + BLOCK + wes[w].header.size>> >>
    ELSE <<>>

\* the stream is written and ended, and the consumer drains what it is handed
Drained ==
    /\ ended
    /\ ~thrown
    /\ \A e \in 1..Len(archive) : Emitted(e) => ents[e].flowing

\* C5: the parser of the concatenated outputs of WriteEntry objects E1..En
\* emits exactly n entries, in the order E1..En, each with the header and
\* the body bytes of its WriteEntry.
C5_RoundTrip ==
    (wes # <<>> /\ Drained) =>
        /\ EntriesOf(log) = [i \in 1..Len(wes) |-> i]
        /\ \A w \in 1..Len(wes) : ents[w].data = BodyOf(w)

----------------------------------------------------------------------------
\* Unpack extends Parser: its constructor (unpack.js line 64) makes ONENTRY
\* the listener of the parser's 'entry' event, so the entries it dispatches
\* are the entries the parser emits.

\* Unpack[ONENTRY], lines 67-92: the handler an entry of type t is given to
HandlerOf(t) ==
    IF t \in {"File", "OldFile", "ContiguousFile"} THEN "FILE"
    ELSE IF t = "Link" THEN "HARDLINK"
    ELSE IF t = "SymbolicLink" THEN "SYMLINK"
    ELSE IF t \in {"Directory", "GNUDumpDir"} THEN "DIRECTORY"
    ELSE IF t \in {"CharacterDevice", "BlockDevice", "FIFO"} THEN "UNSUPPORTED"
    ELSE "UNKNOWN"

\* the entries for which Unpack[UNKNOWN], lines 139-142, has emitted 'unknown'
UnknownSignalled == {e \in 1..Len(archive) : Emitted(e) /\ HandlerOf(archive[e].type) = "UNKNOWN"}

\* C31: for an entry with a valid header whose type code is unknown the
\* extractor emits 'unknown' (stated of the entries whose header has been
\* read, once the stream is ended and everything emitted has been drained).
C31_UnknownIsSignalled ==
    \A e \in 1..Len(archive) :
        (/\ archive[e].type \notin (KnownTypes \cup MetaTypes)
         /\ ents[e].created
         /\ Drained) => e \in UnknownSignalled

----------------------------------------------------------------------------
\* Paths.  A path string is the sequence of its components, what
\* split('/') gives: "/a/../b" is <<"", "a", "..", "b">>, "a/" is <<"a", "">>,
\* "/" is <<"", "">> and the empty string is <<"">>.  join('/') of a
\* sequence of components is that sequence, and of no component the empty
\* string.

EmptyString == <<"">>
Slash == <<"", "">>

isAbsolute(p) == Len(p) > 1 /\ p[1] = ""

\* array.slice(n)
ArraySlice(a, n) == SubSeq(a, SliceIndex(n, Len(a)) + 1, Len(a))

ArrayJoin(a) == IF a = <<>> THEN EmptyString ELSE a

\* path.normalize: the walk over the segments
RECURSIVE normalizeString(_, _, _)
normalizeString(p, res, allowAboveRoot) ==
    IF p = <<>> THEN res
    ELSE LET c == Head(p)
             r == IF c = "" \/ c = "." THEN res
                  ELSE IF c = ".."
                       THEN IF res # <<>> /\ res[Len(res)] # ".."
                            THEN SubSeq(res, 1, Len(res) - 1)
                            ELSE IF allowAboveRoot THEN Append(res, "..") ELSE res
                       ELSE Append(res, c)
         IN  normalizeString(Tail(p), r, allowAboveRoot)

normalize(p) ==
    IF p = EmptyString THEN <<".">>
    ELSE LET abs == isAbsolute(p)
             trailingSeparator == Len(p) > 1 /\ p[Len(p)] = ""
             res == normalizeString(p, <<>>, ~abs)
             named == IF res = <<>> /\ ~abs THEN <<".">> ELSE res
             sep == IF named # <<>> /\ trailingSeparator
                    THEN Append(named, "") ELSE named
         IN  IF ~abs THEN sep
             ELSE IF sep = <<>> THEN Slash ELSE <<"">> \o sep

\* path.join(a, b): the non-empty arguments joined by '/', normalized
join(a, b) ==
    IF a = EmptyString /\ b = EmptyString THEN <<".">>
    ELSE IF a = EmptyString THEN normalize(b)
    ELSE IF b = EmptyString THEN normalize(a)
    ELSE normalize(a \o b)

\* a path without its trailing separators
RECURSIVE Untrail(_)
Untrail(p) ==
    IF Len(p) > 1 /\ p[Len(p)] = "" THEN Untrail(SubSeq(p, 1, Len(p) - 1)) ELSE p

\* path.dirname
dirname(p) ==
    LET q == Untrail(p)
        front == Untrail(SubSeq(q, 1, Len(q) - 1))
    IN  IF Len(q) = 1 THEN (IF isAbsolute(p) THEN Slash ELSE <<".">>)
        ELSE IF front = EmptyString THEN Slash ELSE front

\* this[FIXPATH](p), without the guard of the inner join
FixPathNoGuard(dir, n, p) ==
    LET q == IF n # 0 THEN ArrayJoin(ArraySlice(p, n)) ELSE p
    IN  join(dir, q)

\* this[FIXPATH](p), for this.path = dir and this.strip = n
FIXPATH(dir, n, p) ==
    LET q == IF n # 0 THEN ArrayJoin(ArraySlice(p, n)) ELSE p
    IN  join(dir, join(Slash, q))

\* [FIXPATH] as a state machine: an extractor is made for a root and a strip
\* value and is handed an entry with some path
Components == {"", ".", "..", "a", "b"}

EntryPaths == UNION {[1..n -> Components] : n \in 1..MaxPathLen}

Roots == {<<"", "r">>, <<"r">>, <<"..", "r">>, <<".">>, <<"", "r", "">>}

Strips == (-1)..MaxStrip

PathInit ==
    /\ unpackPath \in Roots
    /\ strip \in Strips
    /\ fixArg \in EntryPaths
    /\ fixed = <<>>
    /\ entries = <<>>
    /\ nextEntry = 1
    /\ curEntry = 0
    /\ madeDirs = <<>>
    /\ ops = {}
    /\ fsys = <<>>
    /\ fsys0 = <<>>
    /\ ulog = {}
    /\ linkCalls = <<>>
    /\ ParserIdle
    /\ WriteIdle

\* the extractor maps the path of the entry to its target
FixPath ==
    /\ fixed' = FIXPATH(unpackPath, strip, fixArg)
    /\ UNCHANGED <<unpackPath, strip, fixArg, entries, nextEntry, curEntry,
                   madeDirs, ops, fsys, ulog, linkCalls, fsys0>>
    /\ UNCHANGED <<parserVars, writeVars>>

PathNext == FixPath

SpecPath == PathInit /\ [][PathNext]_vars

\* the working directory of the process, and path.resolve against it
Cwd == <<"", "w", "v">>

Resolve(p) == Untrail(normalize(IF isAbsolute(p) THEN p ELSE Cwd \o p))

IsPrefix(a, b) == Len(a) <= Len(b) /\ SubSeq(b, 1, Len(a)) = a

\* the directory b is a itself or lies below it
Within(a, b) == IsPrefix(Resolve(a), Resolve(b)) \/ Resolve(a) = EmptyString

----------------------------------------------------------------------------
\* The filesystem the extractor writes to: a function from the absolute
\* paths of its objects to [kind, to, by], kind "dir", "file" or "symlink",
\* to the target of a symlink, by the entry whose extraction made the object
\* (0 for what was on disk before).

NoPath == <<>>
FsRoot == <<"">>

\* an object of the filesystem: its kind, where it leads if it is a symbolic
\* link, the entry it was made for (0: it was there before), and for a file
\* the mode it was created with
Node(k, t, e) == [kind |-> k, to |-> t, by |-> e, mode |-> 0]

Parent(at) == IF Len(at) > 1 THEN SubSeq(at, 1, Len(at) - 1) ELSE at

\* the object the components rest name, looked up from the directory at
RECURSIVE Walk(_, _, _, _, _)
Walk(fs, at, rest, followLast, fuel) ==
    IF rest = <<>> THEN at
    ELSE LET c == Head(rest)
             more == Tail(rest)
             nxt == Append(at, c)
         IN  IF at \notin DOMAIN fs \/ fs[at].kind # "dir" THEN NoPath
             ELSE IF c = "" \/ c = "." THEN Walk(fs, at, more, followLast, fuel)
             ELSE IF c = ".." THEN Walk(fs, Parent(at), more, followLast, fuel)
             ELSE IF /\ nxt \in DOMAIN fs
                     /\ fs[nxt].kind = "symlink"
                     /\ (more # <<>> \/ followLast)
                  THEN IF fuel = 0 THEN NoPath
                       ELSE LET to == fs[nxt].to
                            IN  Walk(fs, IF isAbsolute(to) THEN FsRoot ELSE at,
                                     to \o more, followLast, fuel - 1)
             ELSE Walk(fs, nxt, more, followLast, fuel)

\* where the absolute path p leads, NoPath when a directory on the way is missing
Locate(fs, p, followLast) == Walk(fs, FsRoot, Tail(Untrail(p)), followLast, MaxSymlinks)

Exists(fs, at) == at # NoPath /\ at \in DOMAIN fs

\* mkdirp(p): every missing directory on the way to p is made
RECURSIVE mkdirp(_, _, _, _)
mkdirp(fs, p, i, e) ==
    IF i > Len(p) THEN [fs |-> fs, er |-> FALSE]
    ELSE LET at == Locate(fs, SubSeq(p, 1, i), TRUE)
             link == Locate(fs, SubSeq(p, 1, i), FALSE)
         IN  IF at = NoPath THEN [fs |-> fs, er |-> TRUE]
             ELSE IF at \notin DOMAIN fs
                  THEN IF Exists(fs, link) THEN [fs |-> fs, er |-> TRUE]
                       ELSE mkdirp((at :> Node("dir", <<>>, e)) @@ fs, p, i + 1, e)
             ELSE IF fs[at].kind = "dir" THEN mkdirp(fs, p, i + 1, e)
             ELSE [fs |-> fs, er |-> TRUE]

\* fs.open(target, 'w', mode): the file is made with the mode, or truncated
OpenForWrite(fs, target, e, mode) ==
    LET at == Locate(fs, target, TRUE)
    IN  IF at = NoPath \/ (at \in DOMAIN fs /\ fs[at].kind # "file")
        THEN [fs |-> fs, er |-> "EIO"]
        ELSE [fs |-> (at :> [Node("file", <<>>, e) EXCEPT
                                !.mode = IF at \in DOMAIN fs THEN fs[at].mode ELSE mode])
                     @@ fs,
              er |-> "none"]

\* fs.symlink(linkpath, p)
Symlink(fs, linkpath, p, e) ==
    LET at == Locate(fs, p, FALSE)
    IN  IF at = NoPath THEN [fs |-> fs, er |-> "ENOENT"]
        ELSE IF at \in DOMAIN fs THEN [fs |-> fs, er |-> "EEXIST"]
        ELSE [fs |-> (at :> Node("symlink", linkpath, e)) @@ fs, er |-> "none"]

\* fs.link(src, p)
Link(fs, src, p, e) ==
    LET from == Locate(fs, src, FALSE)
        at == Locate(fs, p, FALSE)
    IN  IF at = NoPath \/ ~Exists(fs, from) THEN [fs |-> fs, er |-> "ENOENT"]
        ELSE IF fs[from].kind = "dir" THEN [fs |-> fs, er |-> "EPERM"]
        ELSE IF at \in DOMAIN fs THEN [fs |-> fs, er |-> "EEXIST"]
        ELSE [fs |-> (at :> [Node(fs[from].kind, fs[from].to, e) EXCEPT
                                !.mode = fs[from].mode]) @@ fs,
              er |-> "none"]

\* fs.unlink(p)
Unlink(fs, p) ==
    LET at == Locate(fs, p, FALSE)
    IN  IF ~Exists(fs, at) THEN [fs |-> fs, er |-> "ENOENT"]
        ELSE IF fs[at].kind = "dir" THEN [fs |-> fs, er |-> "EISDIR"]
        ELSE [fs |-> [q \in DOMAIN fs \ {at} |-> fs[q]], er |-> "none"]

----------------------------------------------------------------------------
\* Unpack (unpack.js).  The handlers are functions of the record
\* [madeDirs, ops, fsys, ulog, cur]; a call in flight is [op, e, path], and a
\* callback waiting for a directory is [kind, e]: kind "file" for the one
\* [FILE] hands to [MKPARENT], "link" for the one of [LINK], "dir" for the
\* one of [DIRECTORY].

Target(e) == FIXPATH(unpackPath, strip, entries[e].path)

Op(name, e, p) == [op |-> name, e |-> e, path |-> p]

Emit(U, ev) == [U EXCEPT !.ulog = @ \cup {ev}]

\* the entry is drained and emits 'end'
EndEntry(U, e) == [U EXCEPT !.cur = IF @ = e THEN 0 ELSE @]

\* the callbacks that mkdir is given
RunCallback(U, cb, er) ==
    IF er THEN Emit(U, <<"error", cb.e>>)
    ELSE IF cb.kind = "file"
         THEN EndEntry([U EXCEPT !.ops = @ \cup {Op("open", cb.e, Target(cb.e))}], cb.e)
    ELSE IF cb.kind = "dir" THEN EndEntry(U, cb.e)
    ELSE LET name == IF entries[cb.e].type = "SymbolicLink" THEN "symlink" ELSE "link"
         IN  [U EXCEPT !.ops = @ \cup {Op(name, cb.e, Target(cb.e))},
                       !.calls[cb.e] = @ + 1]

\* cbs.forEach(fn => fn(er))
RECURSIVE ForEach(_, _, _)
ForEach(U, cbs, er) ==
    IF cbs = <<>> THEN U ELSE ForEach(RunCallback(U, Head(cbs), er), Tail(cbs), er)

\* mkdir without the test of line 16: every request for a path that is not
\* made starts a mkdirp
mkdirAlways(U, p, cb) ==
    IF p \in DOMAIN U.madeDirs /\ U.madeDirs[p].made THEN RunCallback(U, cb, FALSE)
    ELSE [U EXCEPT !.madeDirs = (p :> [made |-> FALSE, cbs |-> <<cb>>]) @@ @,
                   !.ops = @ \cup {Op("mkdirp", cb.e, p)}]

\* mkdir(path, mode, cb): madeDirs[p] is [made, cbs], made for the value
\* true and cbs for the array of waiting callbacks
mkdir(U, p, cb) ==
    IF p \in DOMAIN U.madeDirs /\ U.madeDirs[p].made THEN RunCallback(U, cb, FALSE)
    ELSE IF p \in DOMAIN U.madeDirs
         THEN [U EXCEPT !.madeDirs[p].cbs = Append(@, cb)]
    ELSE [U EXCEPT !.madeDirs = (p :> [made |-> FALSE, cbs |-> <<cb>>]) @@ @,
                   !.ops = @ \cup {Op("mkdirp", cb.e, p)}]

\* the callback mkdir gives to mkdirp; ioEr is an error of the disk
MkdirpCallback(U, o, ioEr) ==
    LET r == mkdirp(U.fsys, o.path, 1, o.e)
        er == ioEr \/ r.er
        cbs == U.madeDirs[o.path].cbs
        memo == IF er THEN [q \in DOMAIN U.madeDirs \ {o.path} |-> U.madeDirs[q]]
                ELSE [U.madeDirs EXCEPT ![o.path] = [made |-> TRUE, cbs |-> <<>>]]
        U1 == [U EXCEPT !.fsys = IF ioEr THEN @ ELSE r.fs,
                        !.ops = @ \ {o},
                        !.madeDirs = memo]
    IN  IF U.madeDirs[o.path].made
        THEN Emit(U1, <<"TypeError", o.e>>)        \* cbs is true: no forEach
        ELSE ForEach(U1, cbs, er)

MKPARENT(U, e, kind) == mkdir(U, dirname(Target(e)), [kind |-> kind, e |-> e])

LINK(U, e) == MKPARENT(U, e, "link")

ONENTRY(U, e) ==
    LET t == entries[e].type
    IN  IF t \in {"File", "OldFile", "ContiguousFile"} THEN MKPARENT(U, e, "file")
        ELSE IF t \in {"Link", "SymbolicLink"} THEN LINK(U, e)
        ELSE IF t \in {"Directory", "GNUDumpDir"}
             THEN mkdir(U, Target(e), [kind |-> "dir", e |-> e])
        ELSE IF t \in {"CharacterDevice", "BlockDevice", "FIFO"}
             THEN EndEntry(Emit(U, <<"unsupported", e>>), e)
        ELSE EndEntry(Emit(U, <<"unknown", e>>), e)

\* the callback of fs.symlink and fs.link
LinkCallback(U, o) ==
    LET e == o.e
        r == IF o.op = "symlink"
             THEN Symlink(U.fsys, entries[e].linkpath, o.path, e)
             ELSE Link(U.fsys, FIXPATH(unpackPath, strip, entries[e].linkpath), o.path, e)
        U1 == [U EXCEPT !.fsys = r.fs, !.ops = @ \ {o}]
    IN  IF r.er = "EEXIST" THEN [U1 EXCEPT !.ops = @ \cup {Op("unlink", e, o.path)}]
        ELSE IF r.er # "none" THEN Emit(U1, <<"error", e>>)
        ELSE EndEntry(U1, e)

\* the callback of fs.unlink: the error is emitted and the link is tried again
UnlinkCallback(U, o) ==
    LET r == Unlink(U.fsys, o.path)
        U1 == [U EXCEPT !.fsys = r.fs, !.ops = @ \ {o}]
        U2 == IF r.er # "none" THEN Emit(U1, <<"error", o.e>>) ELSE U1
    IN  LINK(U2, o.e)

\* the write stream of [FILE] opens its file
OpenStream(U, o) ==
    LET r == OpenForWrite(U.fsys, o.path, o.e, entries[o.e].mode)
        U1 == [U EXCEPT !.fsys = r.fs, !.ops = @ \ {o}]
    IN  IF r.er # "none" THEN Emit(U1, <<"uncaught", o.e>>) ELSE U1

----------------------------------------------------------------------------
\* UnpackSync (unpack.js lines 173-223).  Every filesystem call returns or
\* throws at once, so a handler is a function of the record
\* [fsys, madeDirs, ulog, thrown]: thrown when an exception has left the
\* handler, and with it the 'entry' event and the write of the caller.

\* entry.mode | 0o777
Or777(mode) == (mode \div 512) * 512 + 511

\* mkdirSync(path, mode), lines 28-36: line 35 is reached only when an array
\* of callbacks waits for the path, and then calls push on the value true
mkdirSync(S, p, e) ==
    IF p \in DOMAIN S.madeDirs /\ S.madeDirs[p].made THEN S
    ELSE LET r == mkdirp(S.fsys, p, 1, e)
         IN  IF r.er THEN [S EXCEPT !.thrown = TRUE]
             ELSE [S EXCEPT !.fsys = r.fs,
                            !.madeDirs = (p :> [made |-> TRUE, cbs |-> <<>>]) @@ @,
                            !.thrown = p \in DOMAIN S.madeDirs]

\* UnpackSync[MKPARENT], lines 200-204
SyncMKPARENT(S, e) == mkdirSync(S, dirname(Target(e)), e)

\* UnpackSync[FILE], lines 178-189
SyncFILE(S, e) ==
    LET S1 == SyncMKPARENT(S, e)
        r == OpenForWrite(S1.fsys, Target(e), e, Or777(entries[e].mode))
    IN  IF S1.thrown THEN S1
        ELSE IF r.er # "none" THEN [S1 EXCEPT !.thrown = TRUE]
        ELSE [S1 EXCEPT !.fsys = r.fs]

\* UnpackSync[DIRECTORY], lines 191-198
SyncDIRECTORY(S, e) == mkdirSync(S, Target(e), e)

\* UnpackSync[LINK], lines 206-222, with [SYMLINK] and [HARDLINK] that call
\* it again after the unlink
RECURSIVE SyncLINK(_, _)
SyncLINK(S, e) ==
    LET S1 == SyncMKPARENT(S, e)
        r == IF entries[e].type = "SymbolicLink"
             THEN Symlink(S1.fsys, entries[e].linkpath, Target(e), e)
             ELSE Link(S1.fsys, FIXPATH(unpackPath, strip, entries[e].linkpath),
                       Target(e), e)
        u == Unlink(S1.fsys, Target(e))
    IN  IF S1.thrown THEN S1
        ELSE IF r.er = "EEXIST"
             THEN IF u.er # "none" THEN [S1 EXCEPT !.thrown = TRUE]
                  ELSE SyncLINK([S1 EXCEPT !.fsys = u.fs], e)
        ELSE IF r.er # "none" THEN [S1 EXCEPT !.thrown = TRUE]
        ELSE [S1 EXCEPT !.fsys = r.fs]

\* Unpack[ONENTRY], lines 67-92, on an UnpackSync object
SyncONENTRY(S, e) ==
    LET t == entries[e].type
    IN  IF t \in {"File", "OldFile", "ContiguousFile"} THEN SyncFILE(S, e)
        ELSE IF t \in {"Link", "SymbolicLink"} THEN SyncLINK(S, e)
        ELSE IF t \in {"Directory", "GNUDumpDir"} THEN SyncDIRECTORY(S, e)
        ELSE IF t \in {"CharacterDevice", "BlockDevice", "FIFO"}
             THEN [S EXCEPT !.ulog = @ \cup {<<"unsupported", e>>}]
        ELSE [S EXCEPT !.ulog = @ \cup {<<"unknown", e>>}]

\* the entries e.. of the archive extracted by an UnpackSync object, up to
\* the first exception
RECURSIVE UnpackSyncFrom(_, _)
UnpackSyncFrom(S, e) ==
    IF e > Len(entries) \/ S.thrown THEN S
    ELSE UnpackSyncFrom(SyncONENTRY(S, e), e + 1)

\* new Unpack.Sync(options) on the filesystem fs, written the whole archive
UnpackSync(fs) ==
    UnpackSyncFrom([fsys |-> fs, madeDirs |-> <<>>, ulog |-> {}, thrown |-> FALSE], 1)

\* the extractor as a state machine
UState ==
    [madeDirs |-> madeDirs, ops |-> ops, fsys |-> fsys, ulog |-> ulog, cur |-> curEntry,
     calls |-> linkCalls]

UBecomes(U) ==
    /\ madeDirs' = U.madeDirs
    /\ ops' = U.ops
    /\ fsys' = U.fsys
    /\ ulog' = U.ulog
    /\ linkCalls' = U.calls
    /\ curEntry' = U.cur

\* an entry as the parser hands it over; every header has mode 0o644
UEntry(t, p, lp) == [type |-> t, path |-> p, linkpath |-> lp, mode |-> 420]

UnpackKinds ==
    { UEntry("File", <<"f">>, EmptyString),
      UEntry("File", <<"..", "e">>, EmptyString),
      UEntry("File", <<"l", "f">>, EmptyString),
      UEntry("SymbolicLink", <<"l">>, <<"", "o">>),
      UEntry("Directory", <<"d", "">>, EmptyString),
      UEntry("Link", <<"h">>, <<"f">>),
      UEntry("FIFO", <<"q">>, EmptyString) }

UnpackRoot == <<"", "r">>

\* the disk before the extraction: the root and a directory beside it, and
\* perhaps a symbolic link in the root that leads to that directory
Disk0 ==
    (FsRoot :> Node("dir", <<>>, 0)) @@
    (UnpackRoot :> Node("dir", <<>>, 0)) @@
    (<<"", "o">> :> Node("dir", <<>>, 0))

Disk1 == (<<"", "r", "l">> :> Node("symlink", <<"", "o">>, 0)) @@ Disk0

UnpackInit ==
    /\ unpackPath = UnpackRoot
    /\ strip = 0
    /\ fixArg = EmptyString
    /\ fixed = <<>>
    /\ entries \in UNION {[1..n -> UnpackKinds] : n \in 1..MaxUnpackEntries}
    /\ nextEntry = 1
    /\ curEntry = 0
    /\ madeDirs = <<>>
    /\ ops = {}
    /\ fsys \in {Disk0, Disk1}
    /\ fsys0 = fsys
    /\ ulog = {}
    /\ linkCalls = [e \in 1..Len(entries) |-> 0]
    /\ ParserIdle
    /\ WriteIdle

UnpackStatic == <<unpackPath, strip, fixArg, fixed, entries, fsys0>>

\* the parser emits the next entry, the one before it has ended
UOnEntry ==
    /\ curEntry = 0
    /\ nextEntry <= Len(entries)
    /\ UBecomes(ONENTRY([UState EXCEPT !.cur = nextEntry], nextEntry))
    /\ nextEntry' = nextEntry + 1
    /\ UNCHANGED <<UnpackStatic, parserVars, writeVars>>

UMkdirpDone(o, ioEr) ==
    /\ o.op = "mkdirp"
    /\ UBecomes(MkdirpCallback(UState, o, ioEr))
    /\ UNCHANGED <<nextEntry, UnpackStatic, parserVars, writeVars>>

UOpenDone(o) ==
    /\ o.op = "open"
    /\ UBecomes(OpenStream(UState, o))
    /\ UNCHANGED <<nextEntry, UnpackStatic, parserVars, writeVars>>

ULinkDone(o) ==
    /\ o.op \in {"symlink", "link"}
    /\ UBecomes(LinkCallback(UState, o))
    /\ UNCHANGED <<nextEntry, UnpackStatic, parserVars, writeVars>>

UUnlinkDone(o) ==
    /\ o.op = "unlink"
    /\ linkCalls[o.e] < MaxLinkCalls
    /\ UBecomes(UnlinkCallback(UState, o))
    /\ UNCHANGED <<nextEntry, UnpackStatic, parserVars, writeVars>>

UnpackNext ==
    \/ UOnEntry
    \/ \E o \in ops, ioEr \in BOOLEAN : UMkdirpDone(o, ioEr)
    \/ \E o \in ops : UOpenDone(o)
    \/ \E o \in ops : ULinkDone(o)
    \/ \E o \in ops : UUnlinkDone(o)

SpecUnpack == UnpackInit /\ [][UnpackNext]_vars

\* the entry has been handed to the extractor and nothing of it is in flight
Extracted(e) ==
    /\ e < nextEntry
    /\ curEntry # e
    /\ \A o \in ops : o.e # e

HasDotDot(p) == \E i \in 1..Len(p) : p[i] = ".."

MadeBy(e) == {at \in DOMAIN fsys : fsys[at].by = e}

\* C7: an entry whose path has a ".." component is skipped: nothing is made
\* for it on the filesystem, and a warning is reported.
C7_DotDotEntrySkipped ==
    \A e \in 1..Len(entries) :
        (HasDotDot(entries[e].path) /\ Extracted(e)) =>
            /\ MadeBy(e) = {}
            /\ \E ev \in ulog : ev[2] = e

\* the location of the entry lies below a symbolic link
BelowSymlink(e) ==
    \E i \in 2..(Len(Untrail(Target(e))) - 1) :
        LET at == SubSeq(Target(e), 1, i)
        IN  at \in DOMAIN fsys /\ fsys[at].kind = "symlink"

\* C8: an entry whose location lies below a symbolic link is not extracted,
\* so nothing is made or written outside the extraction root.
C8_NothingOutsideRoot ==
    /\ \A e \in 1..Len(entries) : (BelowSymlink(e) /\ Extracted(e)) => MadeBy(e) = {}
    /\ \A at \in DOMAIN fsys : fsys[at].by # 0 => IsPrefix(UnpackRoot, at)

\* C17: when the creation of a link fails with EEXIST the target is unlinked
\* and the creation retried once: fs.link or fs.symlink is called at most
\* twice for an entry.
C17_LinkTriedAtMostTwice ==
    \A e \in 1..Len(entries) : linkCalls[e] <= 2

\* C27: a filesystem error on one entry is emitted as 'error' and does not
\* hold up the archive: once the error is reported and no call of the entry
\* is in flight, the entry has ended, so that the parser emits the entry
\* after it and the extractor dispatches it.
C27_ErrorDoesNotBlock ==
    \A e \in 1..Len(entries) :
        (/\ <<"error", e>> \in ulog
         /\ \A o \in ops : o.e # e
         /\ e < nextEntry /\ nextEntry <= Len(entries)) =>
            curEntry # e

\* every entry has been dispatched and has ended, and no call is in flight
AllExtracted == nextEntry > Len(entries) /\ curEntry = 0 /\ ops = {}

\* what a filesystem holds: the kind, link target and mode of every object
Content(fs) ==
    [at \in DOMAIN fs |-> [kind |-> fs[at].kind, to |-> fs[at].to, mode |-> fs[at].mode]]

\* C28: for the same archive and the same filesystem before, Unpack.Sync
\* leaves the filesystem that Unpack leaves: the same files, directories and
\* links, the files with the same mode (stated for the extractions in which
\* no call failed).
C28_SyncLeavesSameFilesystem ==
    (/\ AllExtracted
     /\ \A ev \in ulog : ev[1] \notin {"error", "uncaught"}
     /\ ~UnpackSync(fsys0).thrown) =>
        Content(fsys) = Content(UnpackSync(fsys0).fsys)

----------------------------------------------------------------------------
\* Several Unpack objects in one process: madeDirs is a constant of the
\* module (line 12), so the objects share it.  Each object extracts an
\* archive of one entry into the same root; entry e is the entry of object
\* e, and the objects receive their entries at any time.

MkdirKinds ==
    { UEntry("File", <<"d", "f">>, EmptyString),
      UEntry("File", <<"d", "g">>, EmptyString),
      UEntry("File", <<"f">>, EmptyString),
      UEntry("SymbolicLink", <<"d", "l">>, <<"f">>),
      UEntry("Directory", <<"d">>, EmptyString) }

MkdirInit ==
    /\ unpackPath = UnpackRoot
    /\ strip = 0
    /\ fixArg = EmptyString
    /\ fixed = <<>>
    /\ entries \in UNION {[1..n -> MkdirKinds] : n \in 1..MaxUnpackEntries}
    /\ nextEntry = 1
    /\ curEntry = 0
    /\ madeDirs = <<>>
    /\ ops = {}
    /\ fsys \in {Disk0, Disk1}
    /\ fsys0 = fsys
    /\ ulog = {}
    /\ linkCalls = [e \in 1..Len(entries) |-> 0]
    /\ ParserIdle
    /\ WriteIdle

\* the parser of the next object emits its entry
UOnEntryOfNext ==
    /\ nextEntry <= Len(entries)
    /\ UBecomes(ONENTRY(UState, nextEntry))
    /\ nextEntry' = nextEntry + 1
    /\ UNCHANGED <<UnpackStatic, parserVars, writeVars>>

MkdirNext ==
    \/ UOnEntryOfNext
    \/ \E o \in ops, ioEr \in BOOLEAN : UMkdirpDone(o, ioEr)
    \/ \E o \in ops : UOpenDone(o)
    \/ \E o \in ops : ULinkDone(o)
    \/ \E o \in ops : UUnlinkDone(o)

SpecMkdir == MkdirInit /\ [][MkdirNext]_vars

\* the mkdirp calls in flight for the path p
InFlight(os, p) == {o \in os : o.op = "mkdirp" /\ o.path = p}

\* the requests that wait for the mkdirp in flight for p
Waiting(p) == {madeDirs[p].cbs[i].e : i \in 1..Len(madeDirs[p].cbs)}

\* the request of entry e has been answered with an error / with success
\* (its callback has gone on to the next call of the entry, or ended it)
AnsweredError(e) == <<"error", e>> \in ulog'
AnsweredOk(e) ==
    /\ <<"error", e>> \notin ulog' \ ulog
    /\ \/ entries[e].type = "Directory"
       \/ \E o \in ops' \ ops : o.e = e /\ o.op \in {"open", "symlink", "link"}

\* C12: at most one mkdirp is in flight per path; a request for a path whose
\* mkdirp is in flight or has succeeded starts no mkdirp, and when the
\* mkdirp in flight completes every waiting request gets its outcome.
C12_OneMkdirpPerPath ==
    /\ [](\A p \in DOMAIN madeDirs :
            Cardinality(InFlight(ops, p)) = IF madeDirs[p].made THEN 0 ELSE 1)
    /\ [](\A o \in ops : o.op = "mkdirp" => o.path \in DOMAIN madeDirs)
    /\ [][/\ \A o \in ops' \ ops : o.op = "mkdirp" => o.path \notin DOMAIN madeDirs
          /\ \A p \in DOMAIN madeDirs : madeDirs[p].made =>
                 p \in DOMAIN madeDirs' /\ madeDirs'[p].made
          /\ \A o \in ops \ ops' : o.op = "mkdirp" =>
                 \/ \A e \in Waiting(o.path) : AnsweredError(e)
                 \/ /\ madeDirs'[o.path].made
                    /\ \A e \in Waiting(o.path) : AnsweredOk(e)]_vars

\* a request has arrived while the mkdirp for its path was in flight
C12_Witness ==
    \E p \in DOMAIN madeDirs :
        /\ ~madeDirs[p].made
        /\ Len(madeDirs[p].cbs) >= 2
        /\ Cardinality(InFlight(ops, p)) = 1

----------------------------------------------------------------------------
\* Unpack and UnpackSync objects in one process: both kinds use the one
\* madeDirs.  Beside the Unpack objects of above, an UnpackSync object may
\* be handed any of the entries at any time, and extracts it at once.

USyncOnEntry(e) ==
    /\ LET S == SyncONENTRY([fsys |-> fsys, madeDirs |-> madeDirs, ulog |-> {},
                             thrown |-> FALSE], e)
       IN  /\ madeDirs' = S.madeDirs
           /\ fsys' = S.fsys
    /\ UNCHANGED <<ops, ulog, linkCalls, curEntry, nextEntry, UnpackStatic,
                   parserVars, writeVars>>

MixedNext ==
    \/ MkdirNext
    \/ \E e \in 1..Len(entries) : USyncOnEntry(e)

SpecMkdirMixed == MkdirInit /\ [][MixedNext]_vars

\* the requests that wait for p after the step
WaitingNext(p) ==
    IF p \in DOMAIN madeDirs' /\ ~madeDirs'[p].made
    THEN {madeDirs'[p].cbs[i].e : i \in 1..Len(madeDirs'[p].cbs)}
    ELSE {}

\* C39: every callback passed to mkdir(path, mode, cb) is invoked exactly
\* once, whatever mkdirp gives and however the calls of mkdir and mkdirSync
\* for the path interleave: a callback that waits in madeDirs leaves it only
\* by being called, with the error or without.
C39_CallbackInvokedOnce ==
    [][\A p \in DOMAIN madeDirs :
          ~madeDirs[p].made =>
              \A e \in Waiting(p) :
                  \/ e \in WaitingNext(p)
                  \/ AnsweredError(e)
                  \/ AnsweredOk(e)]_vars


====
